---- MODULE Spec2Model ----
(***************************************************************************)
(* Quote server: control-channel handlers, subscriber registry            *)
(* (ClientManager), quote/stop channel tables, per-subscriber streamers   *)
(* (ClientStreamer), the quote generator loop, the UDP ping listener and  *)
(* the cleanup loop.  Each action is one atomic step of one thread: a     *)
(* critical section of one mutex, one channel operation or one socket     *)
(* operation.  A loop's running.load() is one step with the blocking call *)
(* that follows it: no step of the loop body reads the flag again.        *)
(* Spec is the whole server; the other specifications are the behaviours  *)
(* of Spec in which only the named threads take steps and only the named  *)
(* inputs arrive.                                                          *)
(***************************************************************************)
EXTENDS Integers, Sequences, FiniteSets, TLC

\* ------------------------------------------------------------------ bounds
\* Wall-clock instants are 0..MaxTime.
MaxTime == 3
\* ServerConfig.ping_timeout in clock units (a configuration value).
PingTimeout == 2
\* Largest clock advance observed between two is_expired calls of one sweep.
MaxSweepDrift == 2
\* Number of STREAM commands handled in one run (each creates one streamer).
MaxUnits == 2
\* Number of generator rounds (one round emits every ticker of ALL_TICKERS).
MaxRounds == 1
\* Number of tickers of Server::ALL_TICKERS the generator walks through.
NumTickers == 2
\* Longest text (in characters) handed to the parsers of Tickers and Response.
MaxTextLen == 3
\* Largest number of tokens of a command line and of fields of a quote line.
MaxTokens == 4
\* Number of generate and generate_batch calls on one QuoteGenerator.
MaxCalls == 3
\* Largest mantissa of a Decimal: a product that needs more digits is not
\* computed.
MaxMantissa == 1000000000

\* ------------------------------------------------------------------- texts
\* A text (a str, a String, the payload of a datagram) is the sequence of its
\* characters.
Range(s) == {s[i] : i \in DOMAIN s}

\* str::trim: leading and trailing whitespace removed.
Whitespace == {" ", "\n", "\r", "\t"}
RECURSIVE TrimStart(_)
TrimStart(msg) ==
    IF msg # <<>> /\ Head(msg) \in Whitespace THEN TrimStart(Tail(msg)) ELSE msg
RECURSIVE TrimEnd(_)
TrimEnd(msg) ==
    IF msg # <<>> /\ msg[Len(msg)] \in Whitespace
    THEN TrimEnd(SubSeq(msg, 1, Len(msg) - 1)) ELSE msg
Trim(msg) == TrimEnd(TrimStart(msg))

\* u8::to_ascii_uppercase
LowerCase == <<"a", "b", "c", "d", "e", "f", "g", "h", "i", "j", "k", "l", "m", "n", "o", "p", "q", "r", "s", "t", "u", "v", "w", "x", "y", "z">>
UpperCase == <<"A", "B", "C", "D", "E", "F", "G", "H", "I", "J", "K", "L", "M", "N", "O", "P", "Q", "R", "S", "T", "U", "V", "W", "X", "Y", "Z">>
ToAsciiUpper(ch) ==
    IF \E k \in DOMAIN LowerCase : LowerCase[k] = ch
    THEN UpperCase[CHOOSE k \in DOMAIN LowerCase : LowerCase[k] = ch]
    ELSE ch

\* str::to_uppercase, on ASCII text.
ToUpper(w) == IF w = <<>> THEN <<>> ELSE [k \in DOMAIN w |-> ToAsciiUpper(w[k])]

\* str::eq_ignore_ascii_case
EqIgnoreAsciiCase(a, b) ==
    /\ Len(a) = Len(b)
    /\ \A k \in 1..Len(a) : ToAsciiUpper(a[k]) = ToAsciiUpper(b[k])

\* str::split: the pieces of s between the characters of seps, empty pieces
\* included.
RECURSIVE SplitOn(_, _)
SplitOn(s, seps) ==
    IF \A k \in DOMAIN s : s[k] \notin seps THEN <<s>>
    ELSE LET k == CHOOSE i \in DOMAIN s :
                     s[i] \in seps /\ \A j \in 1..(i - 1) : s[j] \notin seps
         IN <<SubSeq(s, 1, k - 1)>> \o SplitOn(SubSeq(s, k + 1, Len(s)), seps)

\* str::split_whitespace: the maximal runs of non-whitespace characters.
SplitWhitespace(s) == SelectSeq(SplitOn(s, Whitespace), LAMBDA t : t # <<>>)

\* The texts of a sequence written one after the other with sep between them.
RECURSIVE Join(_, _)
Join(texts, sep) ==
    IF texts = <<>> THEN <<>>
    ELSE IF Len(texts) = 1 THEN texts[1]
    ELSE texts[1] \o <<sep>> \o Join(Tail(texts), sep)

\* The sequences of at most n elements of chars: every text a caller can build
\* from these characters.
RECURSIVE Texts(_, _)
Texts(chars, n) ==
    IF n = 0 THEN {<<>>}
    ELSE LET shorter == Texts(chars, n - 1)
         IN shorter \cup {<<c>> \o t : c \in chars, t \in shorter}

\* Display of the unsigned integer types: the decimal digits of n.
Digits == <<"0", "1", "2", "3", "4", "5", "6", "7", "8", "9">>
RECURSIVE ToText(_)
ToText(n) ==
    IF n < 10 THEN <<Digits[n + 1]>>
    ELSE ToText(n \div 10) \o <<Digits[(n % 10) + 1]>>

\* The number a text of digits denotes.
RECURSIVE DigitsValue(_)
DigitsValue(s) ==
    IF s = <<>> THEN 0
    ELSE 10 * DigitsValue(SubSeq(s, 1, Len(s) - 1))
         + (CHOOSE d \in DOMAIN Digits : Digits[d] = s[Len(s)]) - 1

\* ------------------------------------------------------------ input domains
Conns == {"c1", "c2"}
PeerIp == [c \in Conns |-> IF c = "c1" THEN "10.0.0.1" ELSE "10.0.0.2"]
SourceIps == {"10.0.0.1", "10.0.0.2"}

\* An IPv4 address is kept as its dotted text.
Loopback == <<"1", "2", "7", ".", "0", ".", "0", ".", "1">>
Addr1 == [ip |-> Loopback, port |-> 9001]
Addr2 == [ip |-> Loopback, port |-> 9002]
Targets == {Addr1, Addr2}

\* Server::ALL_TICKERS, cut to its first NumTickers entries.
ALL_TICKERS ==
    SubSeq(<<<<"A", "A", "P", "L">>,
             <<"G", "O", "O", "G", "L">>,
             <<"T", "S", "L", "A">>,
             <<"M", "S", "F", "T">>,
             <<"A", "M", "Z", "N">>,
             <<"N", "V", "D", "A">>,
             <<"M", "E", "T", "A">>,
             <<"J", "P", "M">>,
             <<"J", "N", "J">>,
             <<"V">>>>, 1, NumTickers)

\* ------------------------------------------------------- common::protocol
\* Result values of the parsers.
Ok(v) == [ok |-> TRUE, value |-> v, err |-> <<>>]
Err(m) == [ok |-> FALSE, value |-> <<>>, err |-> m]

\* str::parse of the unsigned integer types: an optional '+' and digits.
ParseUInt(s) ==
    LET body == IF s # <<>> /\ Head(s) = "+" THEN Tail(s) ELSE s
    IN IF body = <<>> \/ \E k \in DOMAIN body : body[k] \notin Range(Digits)
       THEN Err(<<"invalid digit found in string">>)
       ELSE Ok(DigitsValue(body))

\* A from_str that keeps the empty segments.
ParseTickersUnfiltered(s) ==
    LET segs == SplitOn(s, {","})
    IN Ok([i \in DOMAIN segs |-> ToUpper(Trim(segs[i]))])

\* Tickers::from_str; TICKER_SEPARATOR is ','.
ParseTickers(s) ==
    LET segs == SplitOn(s, {","})
        norm == [i \in DOMAIN segs |-> ToUpper(Trim(segs[i]))]
        kept == SelectSeq(norm, LAMBDA t : t # <<>>)
    IN IF kept = <<>> THEN Err(<<"No valid tickers provided">>) ELSE Ok(kept)

\* Display of Tickers
TickersText(tickers) == Join(tickers, ",")

\* Tickers::contains
TickersContains(tickers, ticker) == \E i \in DOMAIN tickers : tickers[i] = ticker

\* Hosts that std::net::ToSocketAddrs resolves, with their address.
HostIp == [h \in {Loopback, <<"l", "o", "c", "a", "l", "h", "o", "s", "t">>} |-> Loopback]

\* The position of the last ch in s, 0 if there is none.
LastIndexOf(s, ch) ==
    IF \E k \in DOMAIN s : s[k] = ch
    THEN CHOOSE k \in DOMAIN s : s[k] = ch /\ \A j \in (k + 1)..Len(s) : s[j] # ch
    ELSE 0

\* UdpAddr::from_host_port: s.to_socket_addrs() needs "host:port" with a port
\* that fits u16 and a host that resolves.
FromHostPort(s) ==
    LET k == LastIndexOf(s, ":")
        host == SubSeq(s, 1, k - 1)
        port == ParseUInt(SubSeq(s, k + 1, Len(s)))
    IN IF \/ k = 0
          \/ ~port.ok
          \/ port.ok /\ port.value > 65535
          \/ host \notin DOMAIN HostIp
       THEN Err(<<"invalid socket address">>)
       ELSE Ok([ip |-> HostIp[host], port |-> port.value])

\* Url::parse: a text "scheme:..." whose scheme begins with a letter is a URL;
\* after "scheme://" comes the authority "host" or "host:port". The port is 0
\* where the URL has none.
UrlParse(s) ==
    LET k == IF \E i \in DOMAIN s : s[i] = ":"
             THEN CHOOSE i \in DOMAIN s : s[i] = ":" /\ \A j \in 1..(i - 1) : s[j] # ":"
             ELSE 0
        scheme == SubSeq(s, 1, k - 1)
        rest == SubSeq(s, k + 1, Len(s))
        authority == SubSeq(rest, 3, Len(rest))
        p == LastIndexOf(authority, ":")
        port == ParseUInt(SubSeq(authority, p + 1, Len(authority)))
    IN IF k < 2 \/ ToAsciiUpper(s[1]) \notin Range(UpperCase)
       THEN Err(<<"relative URL without a base">>)
       ELSE IF Len(rest) < 2 \/ SubSeq(rest, 1, 2) # <<"/", "/">>
       THEN Ok([scheme |-> scheme, host |-> <<>>, port |-> 0])
       ELSE IF p = 0
       THEN Ok([scheme |-> scheme, host |-> authority, port |-> 0])
       ELSE IF ~port.ok \/ port.value > 65535 THEN Err(<<"invalid port number">>)
       ELSE Ok([scheme |-> scheme, host |-> SubSeq(authority, 1, p - 1),
                port |-> port.value])

\* UdpAddr::from_url; UDP_SCHEME is "udp".
FromUrl(url) ==
    IF url.scheme # <<"u", "d", "p">>
    THEN Err(<<"Expected 'udp' scheme, got", url.scheme>>)
    ELSE IF url.host = <<>> THEN Err(<<"Missing host in URL">>)
    ELSE IF url.port = 0 THEN Err(<<"Missing port in URL">>)
    ELSE FromHostPort(url.host \o <<":">> \o ToText(url.port))

\* UdpAddr::from_str
ParseUdpAddr(s) ==
    IF UrlParse(s).ok THEN FromUrl(UrlParse(s).value) ELSE FromHostPort(s)

\* Display of UdpAddr: "udp://ip:port"
UrlText(a) ==
    <<"u", "d", "p", ":", "/", "/">> \o a.ip \o <<":">> \o ToText(a.port)

\* Command::from_str
STREAM == <<"S", "T", "R", "E", "A", "M">>
PING == <<"P", "I", "N", "G">>
ParseCommand(s) ==
    LET parts == SplitWhitespace(s) IN
    IF parts = <<>> THEN Err(<<"Empty command">>)
    ELSE LET cmd == ToUpper(parts[1]) IN
      IF cmd = STREAM THEN
        IF Len(parts) < 2 THEN Err(<<"STREAM: missing UDP address">>)
        ELSE LET a == ParseUdpAddr(parts[2]) IN
          IF ~a.ok THEN a
          ELSE IF Len(parts) < 3 THEN Err(<<"STREAM: missing tickers">>)
          ELSE LET t == ParseTickers(parts[3]) IN
            IF ~t.ok THEN t
            ELSE IF Len(parts) > 3 THEN Err(<<"STREAM: too many arguments">>)
            ELSE Ok([tag |-> "Stream", udp_addr |-> a.value, tickers |-> t.value])
      ELSE IF cmd = PING THEN Ok([tag |-> "Ping"])
      ELSE Err(<<"Unknown command:", cmd>>)

\* Display of Command
CommandText(cmd) ==
    IF cmd.tag = "Stream"
    THEN STREAM \o <<" ">> \o UrlText(cmd.udp_addr) \o <<" ">> \o TickersText(cmd.tickers)
    ELSE PING

\* Response::Ok and Response::Error(message)
ResponseOk == [tag |-> "Ok", message |-> <<>>]
ResponseError(m) == [tag |-> "Error", message |-> m]

\* A from_str that hands back the message without its surrounding whitespace.
ParseResponseTrimmed(s) ==
    LET t == Trim(s) IN
    IF t = <<"O", "K">> THEN Ok(ResponseOk)
    ELSE IF Len(t) >= 3 /\ SubSeq(t, 1, 3) = <<"E", "R", "R">>
    THEN Ok(ResponseError(Trim(SubSeq(t, 4, Len(t)))))
    ELSE Err(<<"Invalid response:", t>>)

\* Response::from_str
ParseResponse(s) ==
    LET t == TrimStart(s) IN
    IF t = <<"O", "K">> \/ TrimEnd(t) = <<"O", "K">> THEN Ok(ResponseOk)
    ELSE IF Len(t) >= 4 /\ SubSeq(t, 1, 4) = <<"E", "R", "R", " ">>
    THEN Ok(ResponseError(SubSeq(t, 5, Len(t))))
    ELSE IF t = <<"E", "R", "R">> \/ TrimEnd(t) = <<"E", "R", "R">> THEN Ok(ResponseError(<<>>))
    ELSE Err(<<"Invalid response:", t>>)

\* Display of Response
ResponseText(response) ==
    IF response.tag = "Ok" THEN <<"O", "K">>
    ELSE IF response.message = <<>> THEN <<"E", "R", "R">>
    ELSE <<"E", "R", "R", " ">> \o response.message

\* ---------------------------------------------------------- common::quote
\* A Decimal is its mantissa m and its scale: the number m / 10^scale.
\* Display of Decimal: all digits of the scale are written.
DecimalText(d) ==
    LET digits == ToText(IF d.m < 0 THEN -d.m ELSE d.m)
        padded == IF Len(digits) > d.scale THEN digits
                  ELSE [i \in 1..(d.scale + 1 - Len(digits)) |-> "0"] \o digits
        n == Len(padded)
    IN (IF d.m < 0 THEN <<"-">> ELSE <<>>)
       \o SubSeq(padded, 1, n - d.scale)
       \o (IF d.scale = 0 THEN <<>> ELSE <<".">> \o SubSeq(padded, n - d.scale + 1, n))

\* Decimal::from_str on a sign, digits and at most one point followed by
\* digits: the scale is the number of digits after the point.
ParseDecimal(s) ==
    LET signed == s # <<>> /\ Head(s) \in {"-", "+"}
        parts == SplitOn(IF signed THEN Tail(s) ELSE s, {"."})
        int == parts[1]
        frac == IF Len(parts) = 2 THEN parts[2] ELSE <<>>
        value == DigitsValue(int \o frac)
    IN IF \/ Len(parts) > 2
          \/ int = <<>>
          \/ Len(parts) = 2 /\ frac = <<>>
          \/ \E k \in DOMAIN (int \o frac) : (int \o frac)[k] \notin Range(Digits)
       THEN Err(<<"Invalid decimal">>)
       ELSE Ok([m |-> IF Head(s) = "-" THEN -value ELSE value, scale |-> Len(frac)])

\* StockQuote::new; clock is the reading of SystemTime::now() in milliseconds
\* since the epoch, negative for a clock set before the epoch.
StockQuoteNew(ticker, price, volume, clock) ==
    IF ticker = <<>> THEN Err(<<"Ticker cannot be empty">>)
    ELSE IF "|" \in Range(ticker) THEN Err(<<"Ticker cannot contain '|'">>)
    ELSE IF clock < 0 THEN Err(<<"System time before UNIX epoch">>)
    ELSE Ok([ticker |-> ticker, price |-> price, volume |-> volume,
             timestamp |-> clock])

\* Display of StockQuote: ticker|price|volume|timestamp
QuoteText(quote) ==
    Join(<<quote.ticker, DecimalText(quote.price), ToText(quote.volume),
           ToText(quote.timestamp)>>, "|")

\* StockQuote::to_json: the serde_json object of the four fields in the order
\* of their declaration, the Decimal as a JSON string. No character of the
\* tickers used here needs a JSON escape.
to_json(quote) ==
    <<"{", "\"", "t", "i", "c", "k", "e", "r", "\"", ":", "\"">> \o quote.ticker
    \o <<"\"", ",", "\"", "p", "r", "i", "c", "e", "\"", ":", "\"">> \o DecimalText(quote.price)
    \o <<"\"", ",", "\"", "v", "o", "l", "u", "m", "e", "\"", ":">> \o ToText(quote.volume)
    \o <<",", "\"", "t", "i", "m", "e", "s", "t", "a", "m", "p", "\"", ":">> \o ToText(quote.timestamp)
    \o <<"}">>

\* StockQuote::to_bytes
to_bytes(quote) == to_json(quote)

\* The arguments a caller hands to StockQuote::new (ticker, price, volume and
\* the clock reading), and the StockQuote values it gets.
QuoteArgs ==
    Texts({"A", "{", "|", " "}, MaxTextLen - 1)
      \X {[m |-> 150, scale |-> 2], [m |-> -5, scale |-> 3], [m |-> 7, scale |-> 0]}
      \X {0, 1000} \X {-1, 0, 17}
Quotes ==
    {StockQuoteNew(a[1], a[2], a[3], a[4]).value :
        a \in {x \in QuoteArgs : StockQuoteNew(x[1], x[2], x[3], x[4]).ok}}

\* StockQuote::from_str. from_json (serde_json::from_str) reads back the
\* objects that to_json writes; any other text is no JSON of a quote.
ParseQuote(s) ==
    LET parts == SplitOn(s, {"|"})
        price == ParseDecimal(parts[2])
        volume == ParseUInt(parts[3])
        timestamp == ParseUInt(parts[4])
    IN IF TrimStart(s) # <<>> /\ Head(TrimStart(s)) = "{"
       THEN IF \E q \in Quotes : to_json(q) = s
            THEN Ok(CHOOSE q \in Quotes : to_json(q) = s)
            ELSE Err(<<"Invalid JSON quote">>)
       ELSE IF Len(parts) < 2 THEN Err(<<"Missing price">>)
       ELSE IF ~price.ok THEN Err(<<"Invalid price">>)
       ELSE IF Len(parts) < 3 THEN Err(<<"Missing volume">>)
       ELSE IF ~volume.ok THEN Err(<<"Invalid volume">>)
       ELSE IF Len(parts) < 4 THEN Err(<<"Missing timestamp">>)
       ELSE IF ~timestamp.ok THEN Err(<<"Invalid timestamp">>)
       ELSE IF Len(parts) > 4 THEN Err(<<"Too many fields in quote">>)
       ELSE Ok([ticker |-> parts[1], price |-> price.value,
                volume |-> volume.value, timestamp |-> timestamp.value])

\* ------------------------------------------------- control-channel inputs
\* One STREAM line per target, with different tickers.
TwoStreamLines ==
    {STREAM \o <<" ">> \o UrlText(Addr1) \o <<" ">> \o <<"a", "a", "p", "l">>,
     STREAM \o <<" ">> \o UrlText(Addr2) \o <<" ">> \o <<"g", "o", "o", "g", "l", ",", ",", "A", "A", "P", "L">>}
StreamLines ==
    {STREAM \o <<" ">> \o UrlText(a) \o <<" ">> \o t :
        a \in Targets, t \in {<<"a", "a", "p", "l">>, <<"g", "o", "o", "g", "l", ",", ",", "A", "A", "P", "L">>}}
PingLines == {PING, <<"p", "i", "n", "g">>}
\* The empty line, an unknown verb, a target that is no address, no ticker.
BadLines ==
    {<<>>,
     <<"f", "o", "o">>,
     STREAM \o <<" ", "b", "a", "d", "-", "t", "a", "r", "g", "e", "t", " ", "A", "A", "P", "L">>,
     <<"s", "t", "r", "e", "a", "m">> \o <<" ">> \o UrlText(Addr1) \o <<" ", ",">>}
Lines == StreamLines \cup PingLines \cup BadLines

\* The datagrams that arrive at the heartbeat port.
PayloadPING == <<"P", "I", "N", "G">>
PayloadPingLf == <<"p", "i", "n", "g", "\n">>
PayloadPONG == <<"P", "O", "N", "G">>
PayloadPINGS == <<" ", "P", "I", "N", "G", "S">>
Payloads == {PayloadPING, PayloadPingLf, PayloadPONG, PayloadPINGS}

\* The payload test without trim and case folding.
IsPingPayloadExact(msg) == msg = PayloadPING

\* msg.trim().eq_ignore_ascii_case("PING")
IsPingPayload(msg) == EqIgnoreAsciiCase(Trim(msg), PayloadPING)

\* ------------------------------------------------------------------- state
VARIABLES
    now,              \* the clock read by Instant::now()
    running,          \* Server.running
    clients,          \* ClientManager.clients: target -> ClientInfo
    client_channels,  \* Server.client_channels: target -> streamer holding the receiver
    stop_channels,    \* Server.stop_channels: target -> streamer holding the receiver
    units,            \* the channel pairs and streamer threads created so far
    conns,            \* handle_tcp_client threads, one per control connection;
                      \* erred records that an Error response was written to it
    cleanup,          \* the cleanup thread
    gen,              \* the quote generator thread
    ping_pc,          \* the ping listener thread
    accept_pc,        \* the acceptor loop of run_tcp_server
    out,              \* what the last step returned or put on a socket
    regular           \* target -> instant of the last PING processed from its source
                      \* IP (or its registration), while no gap since registration
                      \* reached ping_timeout; -1 otherwise

vars ==
    <<now, running, clients, client_channels, stop_channels, units, conns,
      cleanup, gen, ping_pc, accept_pc, out, regular>>

\* The variables of the server: a caller of the library alone changes none.
ServerVars ==
    <<now, running, clients, client_channels, stop_channels, units, conns,
      cleanup, gen, ping_pc, accept_pc, regular>>

NoOutput == [kind |-> "none"]
NoCommand == [tag |-> "None"]

UnitIds == 1..Len(units)
Running(u) == units[u].state \in {"CheckStop", "RecvQuote"}

\* HashMap::new, HashMap::insert and HashMap::remove
EmptyMap == [x \in {} |-> x]
MapInsert(m, k, v) == [x \in DOMAIN m \cup {k} |-> IF x = k THEN v ELSE m[x]]
MapRemove(m, k) == [x \in DOMAIN m \ {k} |-> m[x]]

\* ------------------------------------------------------ server::generator
\* Decimal arithmetic of rust_decimal on values that need no rounding: a sum
\* has the larger scale of its operands, a product the sum of their scales.
RECURSIVE Rescale(_, _)
Rescale(d, scale) ==
    IF d.scale >= scale THEN d
    ELSE Rescale([m |-> d.m * 10, scale |-> d.scale + 1], scale)

DecAdd(a, b) ==
    LET scale == IF a.scale > b.scale THEN a.scale ELSE b.scale
    IN [m |-> Rescale(a, scale).m + Rescale(b, scale).m, scale |-> scale]

DecMul(a, b) == [m |-> a.m * b.m, scale |-> a.scale + b.scale]

\* Ord::max(a, b): a if it is the greater, b otherwise.
DecMax(a, b) ==
    LET scale == IF a.scale > b.scale THEN a.scale ELSE b.scale
    IN IF Rescale(a, scale).m > Rescale(b, scale).m THEN a ELSE b

\* random_decimal(rng, min, max); n is rng.gen_range(0..10000). The quotient
\* n / 10000 is exact and carries no trailing zero.
random_decimal(n, min, max) ==
    LET RECURSIVE Quotient(_)
        Quotient(d) == IF d.scale > 0 /\ d.m % 10 = 0
                       THEN Quotient([m |-> d.m \div 10, scale |-> d.scale - 1])
                       ELSE d
        range == DecAdd(max, [m |-> -min.m, scale |-> min.scale])
        random_factor == Quotient([m |-> n, scale |-> 4])
    IN DecAdd(min, DecMul(range, random_factor))

\* A change factor between 1 - 5% and 1 + 5%.
random_change_factor_wide(n) ==
    DecAdd([m |-> 1, scale |-> 0],
           random_decimal(n, [m |-> -5, scale |-> 2], [m |-> 5, scale |-> 2]))

\* random_change_factor; MAX_PRICE_CHANGE_PERCENT is dec!(0.01).
random_change_factor(n) ==
    DecAdd([m |-> 1, scale |-> 0],
           random_decimal(n, [m |-> -1, scale |-> 2], [m |-> 1, scale |-> 2]))

TICKER_MIN_PRICE == [m |-> 100, scale |-> 2]
UNKNOWN_TICKER_DEFAULT_PRICE == [m |-> 10000, scale |-> 2]

\* A next_price without the clamp to TICKER_MIN_PRICE.
next_price_unclamped(prices, ticker, n) ==
    LET entry == IF ticker \in DOMAIN prices THEN prices
                 ELSE MapInsert(prices, ticker, UNKNOWN_TICKER_DEFAULT_PRICE)
        price == DecMul(entry[ticker], random_change_factor(n))
    IN [prices |-> [entry EXCEPT ![ticker] = price], price |-> price]

\* QuoteGenerator::next_price: the generator's prices after the call and the
\* price returned.
next_price(prices, ticker, n) ==
    LET entry == IF ticker \in DOMAIN prices THEN prices
                 ELSE MapInsert(prices, ticker, UNKNOWN_TICKER_DEFAULT_PRICE)
        price == DecMax(DecMul(entry[ticker], random_change_factor(n)),
                        TICKER_MIN_PRICE)
    IN [prices |-> [entry EXCEPT ![ticker] = price], price |-> price]

\* QuoteGenerator::generate with random_volume. draw holds what the call reads
\* from outside: n and v from the random number generator (v in 0..999 is
\* scaled to the range of the ticker), clock from SystemTime::now().
generate(prices, ticker, draw) ==
    LET next == next_price(prices, ticker, draw.n)
        high == ticker \in {<<"A", "A", "P", "L">>, <<"M", "S", "F", "T">>,
                            <<"T", "S", "L", "A">>, <<"N", "V", "D", "A">>,
                            <<"G", "O", "O", "G", "L">>, <<"A", "M", "Z", "N">>,
                            <<"M", "E", "T", "A">>}
        volume == IF high THEN 1000 + 5 * draw.v ELSE 100 + draw.v
    IN [prices |-> next.prices,
        result |-> StockQuoteNew(ticker, next.price, volume, draw.clock)]

\* QuoteGenerator::generate_batch: collect() into Result<Vec<_>> takes the
\* quotes up to the first error and returns that error alone; the tickers
\* after it are not generated.
RECURSIVE generate_batch(_, _, _)
generate_batch(prices, tickers, draws) ==
    IF tickers = <<>> THEN [prices |-> prices, result |-> Ok(<<>>)]
    ELSE LET first == generate(prices, Head(tickers), Head(draws))
             rest == generate_batch(first.prices, Tail(tickers), Tail(draws))
         IN IF ~first.result.ok THEN first
            ELSE IF ~rest.result.ok THEN rest
            ELSE [prices |-> rest.prices,
                  result |-> Ok(<<first.result.value>> \o rest.result.value)]


\* ----------------------------------------------- client_handler::ClientInfo
ClientInfoNew(target, tickers, source_ip, instant) ==
    [target |-> target, tickers |-> tickers, last_ping |-> instant,
     source_ip |-> source_ip]

\* ClientInfo::touch
touch(info, instant) == [info EXCEPT !.last_ping = instant]

\* is_expired with >= for >.
is_expired_ge(info, instant, timeout) == instant - info.last_ping >= timeout

\* ClientInfo::is_expired; instant is the clock that elapsed() reads.
is_expired(info, instant, timeout) == instant - info.last_ping > timeout

\* -------------------------------------------- client_handler::ClientManager
\* register that keeps the record of an already registered target
\* (entry().or_insert for insert).
register_keep_existing(cl, target, tickers, source_ip, instant) ==
    IF target \in DOMAIN cl THEN cl
    ELSE MapInsert(cl, target, ClientInfoNew(target, tickers, source_ip, instant))

\* ClientManager::register
register(cl, target, tickers, source_ip, instant) ==
    MapInsert(cl, target, ClientInfoNew(target, tickers, source_ip, instant))

\* ClientManager::update_ping_by_source: the records that
\* values_mut().find(source_ip == ip) can return; find takes the first one in
\* the map's iteration order, which is unspecified.
FindBySource(cl, ip) == {t \in DOMAIN cl : cl[t].source_ip = ip}

\* update_ping that creates a record for an unknown target.
update_ping_upsert(cl, target, instant) ==
    IF target \in DOMAIN cl
    THEN [cl EXCEPT ![target] = touch(@, instant)]
    ELSE MapInsert(cl, target, ClientInfoNew(target, <<>>, "0.0.0.0", instant))

\* ClientManager::update_ping: the map after get_mut(target) and touch().
update_ping(cl, target, instant) ==
    IF target \in DOMAIN cl
    THEN [cl EXCEPT ![target] = touch(@, instant)]
    ELSE cl

\* ClientManager::update_ping: the returned bool.
update_ping_result(cl, target) == target \in DOMAIN cl

\* update_ping_by_source that touches every record.
update_ping_by_source_all(cl, found, instant) ==
    [t \in DOMAIN cl |-> touch(cl[t], instant)]

\* ClientManager::update_ping_by_source with the record that find returned.
update_ping_by_source(cl, found, instant) ==
    [t \in DOMAIN cl |-> IF t = found THEN touch(cl[t], instant) ELSE cl[t]]

\* ClientManager::remove_expired: the targets retain() drops, when is_expired
\* of record t reads the clock at instant clock[t].
ExpiredTargets(cl, clock, timeout) ==
    {t \in DOMAIN cl : is_expired(cl[t], clock[t], timeout)}

\* ClientManager::remove_expired: the map that retain() leaves.
Retained(cl, clock, timeout) ==
    [t \in DOMAIN cl \ ExpiredTargets(cl, clock, timeout) |-> cl[t]]

\* The orders in which a Vec can list the elements of S.
Orders(S) ==
    {s \in [1..Cardinality(S) -> S] : \A i, j \in DOMAIN s : i # j => s[i] # s[j]}

SetMax(S) == IF S = {} THEN 0 ELSE CHOOSE x \in S : \A y \in S : y <= x

\* ------------------------------------------------------------------- Init
\* The state after construction; returned is what the construction handed to
\* its caller.
InitWith(returned) ==
    /\ now = 0
    /\ running = TRUE
    /\ clients = EmptyMap
    /\ client_channels = EmptyMap
    /\ stop_channels = EmptyMap
    /\ units = <<>>
    /\ conns = [c \in Conns |->
                  [pc |-> "idle", line |-> <<>>, cmd |-> NoCommand, unit |-> 0,
                   erred |-> FALSE]]
    /\ cleanup = [pc |-> "sleep", removed |-> <<>>]
    /\ gen = [pc |-> "sleep", i |-> 0, round |-> 0]
    /\ ping_pc = "listen"
    /\ accept_pc = "accept"
    /\ out = returned
    /\ regular = [t \in Targets |-> -1]

Init == InitWith(NoOutput)


\* The history variable regular after the clock reached instant.
Aged(reg, instant) ==
    [t \in Targets |->
        IF reg[t] # -1 /\ instant - reg[t] >= PingTimeout THEN -1 ELSE reg[t]]

\* ------------------------------------------------------------- the clock
Tick ==
    /\ now < MaxTime
    /\ now' = now + 1
    /\ regular' = Aged(regular, now + 1)
    /\ out' = NoOutput
    /\ UNCHANGED <<running, clients, client_channels, stop_channels, units,
                   conns, cleanup, gen, ping_pc, accept_pc>>

\* running.store(false): the shutdown wiring of the process entry point.
Shutdown ==
    /\ running
    /\ running' = FALSE
    /\ out' = NoOutput
    /\ UNCHANGED <<now, clients, client_channels, stop_channels, units, conns,
                   cleanup, gen, ping_pc, accept_pc, regular>>

\* ------------------------------------------------ Server::run_tcp_server
Accept(c) ==
    /\ accept_pc = "accept"
    /\ running
    /\ conns[c].pc = "idle"
    /\ conns' = [conns EXCEPT ![c].pc = "read"]
    /\ out' = NoOutput
    /\ UNCHANGED <<now, running, clients, client_channels, stop_channels, units,
                   cleanup, gen, ping_pc, accept_pc, regular>>

AcceptorStop ==
    /\ accept_pc = "accept"
    /\ ~running
    /\ accept_pc' = "done"
    /\ out' = NoOutput
    /\ UNCHANGED <<now, running, clients, client_channels, stop_channels, units,
                   conns, cleanup, gen, ping_pc, regular>>

\* ---------------------------------------------- Server::handle_tcp_client
\* WriteLine that returns from the handler after an Error response.
WriteLineThenReturn(c, line, response, written) ==
    IF written
    THEN /\ conns' = [conns EXCEPT ![c] =
                        [pc |-> IF response.tag = "Error" THEN "closed" ELSE "read",
                         line |-> <<>>, cmd |-> NoCommand, unit |-> 0,
                         erred |-> @.erred \/ response.tag = "Error"]]
         /\ out' = [kind |-> "response", conn |-> c, line |-> line,
                    response |-> response]
    ELSE /\ conns' = [conns EXCEPT ![c] =
                        [pc |-> "closed", line |-> <<>>, cmd |-> NoCommand, unit |-> 0,
                         erred |-> @.erred]]
         /\ out' = NoOutput

\* writeln!(stream, "{response}")?: the line is written and the loop reads on,
\* or the write fails and the handler returns the error.
WriteLine(c, line, response, written) ==
    IF written
    THEN /\ conns' = [conns EXCEPT ![c] =
                        [pc |-> "read", line |-> <<>>, cmd |-> NoCommand, unit |-> 0,
                         erred |-> @.erred \/ response.tag = "Error"]]
         /\ out' = [kind |-> "response", conn |-> c, line |-> line,
                    response |-> response]
    ELSE /\ conns' = [conns EXCEPT ![c] =
                        [pc |-> "closed", line |-> <<>>, cmd |-> NoCommand, unit |-> 0,
                         erred |-> @.erred]]
         /\ out' = NoOutput

\* The response handle_tcp_client computes for a line that is no STREAM command.
ResponseFor(parsed) ==
    IF parsed.ok THEN ResponseOk ELSE ResponseError(parsed.err)

\* A Command::Ping arm that touches the records of the connection's peer.
HandlePingLineTouching(c, line, written) ==
    /\ conns[c].pc = "read"
    /\ ParseCommand(line).ok
    /\ ParseCommand(line).value.tag = "Ping"
    /\ WriteLine(c, line, ResponseFor(ParseCommand(line)), written)
    /\ clients' = [t \in DOMAIN clients |->
                     IF clients[t].source_ip = PeerIp[c]
                     THEN touch(clients[t], now) ELSE clients[t]]
    /\ UNCHANGED <<now, running, client_channels, stop_channels, units,
                   cleanup, gen, ping_pc, accept_pc, regular>>

\* A line that parses to Command::Ping.
HandlePingLine(c, line, written) ==
    /\ conns[c].pc = "read"
    /\ ParseCommand(line).ok
    /\ ParseCommand(line).value.tag = "Ping"
    /\ WriteLine(c, line, ResponseFor(ParseCommand(line)), written)
    /\ UNCHANGED <<now, running, clients, client_channels, stop_channels, units,
                   cleanup, gen, ping_pc, accept_pc, regular>>

\* A line that fails to parse.
HandleBadLine(c, line, written) ==
    /\ conns[c].pc = "read"
    /\ ~ParseCommand(line).ok
    /\ WriteLine(c, line, ResponseFor(ParseCommand(line)), written)
    /\ UNCHANGED <<now, running, clients, client_channels, stop_channels, units,
                   cleanup, gen, ping_pc, accept_pc, regular>>

\* A handler that unregisters the subscribers of its peer when it ends.
ConnCloseUnregistering(c) ==
    /\ conns[c].pc = "read"
    /\ conns' = [conns EXCEPT ![c].pc = "closed"]
    /\ clients' = [t \in {x \in DOMAIN clients : clients[x].source_ip # PeerIp[c]}
                     |-> clients[t]]
    /\ out' = NoOutput
    /\ UNCHANGED <<now, running, client_channels, stop_channels, units,
                   cleanup, gen, ping_pc, accept_pc, regular>>

\* reader.lines() ends (the peer closed the connection) or yields an error.
ConnClose(c) ==
    /\ conns[c].pc = "read"
    /\ conns' = [conns EXCEPT ![c].pc = "closed"]
    /\ out' = NoOutput
    /\ UNCHANGED <<now, running, clients, client_channels, stop_channels, units,
                   cleanup, gen, ping_pc, accept_pc, regular>>

\* Number of STREAM commands begun so far.
StreamsBegun ==
    Len(units) + Cardinality({c \in Conns : conns[c].pc = "registered"})

\* ------------------------------------------ Server::handle_stream_command
\* A line that parses to Command::Stream: client_manager.register(...).
HandleStreamLine(c, line) ==
    /\ conns[c].pc = "read"
    /\ ParseCommand(line).ok
    /\ ParseCommand(line).value.tag = "Stream"
    /\ StreamsBegun < MaxUnits
    /\ LET cmd == ParseCommand(line).value IN
         /\ clients' = register(clients, cmd.udp_addr, cmd.tickers, PeerIp[c], now)
         /\ conns' = [conns EXCEPT ![c] =
                         [pc |-> "registered", line |-> line, cmd |-> cmd, unit |-> 0,
                          erred |-> @.erred]]
         /\ regular' = [regular EXCEPT ![cmd.udp_addr] = now]
    /\ out' = NoOutput
    /\ UNCHANGED <<now, running, client_channels, stop_channels, units, cleanup,
                   gen, ping_pc, accept_pc>>

\* A channel pair as unbounded() creates it, with the streamer that will own
\* the receivers.
NewUnit(addr, tickers) ==
    [addr |-> addr, tickers |-> tickers, state |-> "Pending", quote_q |-> <<>>,
     stop_q |-> 0, quote_tx |-> TRUE, stop_tx |-> TRUE, exit |-> "none"]

\* The Sender a map held is dropped: its channel is disconnected.
DropQuoteTx(us, m, addr) ==
    IF addr \in DOMAIN m THEN [us EXCEPT ![m[addr]].quote_tx = FALSE] ELSE us
DropStopTx(us, m, addr) ==
    IF addr \in DOMAIN m THEN [us EXCEPT ![m[addr]].stop_tx = FALSE] ELSE us

\* unbounded() twice and client_channels.lock().insert(addr, tx)
InsertQuoteChannel(c) ==
    /\ conns[c].pc = "registered"
    /\ LET addr == conns[c].cmd.udp_addr
           id == Len(units) + 1
       IN /\ units' = Append(DropQuoteTx(units, client_channels, addr),
                             NewUnit(addr, conns[c].cmd.tickers))
          /\ client_channels' = MapInsert(client_channels, addr, id)
          /\ conns' = [conns EXCEPT ![c].pc = "chan_inserted", ![c].unit = id]
    /\ out' = NoOutput
    /\ UNCHANGED <<now, running, clients, stop_channels, cleanup, gen, ping_pc,
                   accept_pc, regular>>

\* stop_channels.lock().insert(addr, stop_tx)
InsertStopChannel(c) ==
    /\ conns[c].pc = "chan_inserted"
    /\ LET addr == conns[c].cmd.udp_addr IN
          /\ units' = DropStopTx(units, stop_channels, addr)
          /\ stop_channels' = MapInsert(stop_channels, addr, conns[c].unit)
    /\ conns' = [conns EXCEPT ![c].pc = "stop_inserted"]
    /\ out' = NoOutput
    /\ UNCHANGED <<now, running, clients, client_channels, cleanup, gen, ping_pc,
                   accept_pc, regular>>

\* thread::spawn of the streamer thread
SpawnStreamer(c) ==
    /\ conns[c].pc = "stop_inserted"
    /\ units' = [units EXCEPT ![conns[c].unit].state = "Spawned"]
    /\ conns' = [conns EXCEPT ![c].pc = "spawned"]
    /\ out' = NoOutput
    /\ UNCHANGED <<now, running, clients, client_channels, stop_channels, cleanup,
                   gen, ping_pc, accept_pc, regular>>

\* A handler that answers Ok as soon as the subscriber is registered.
WriteStreamResponseEarly(c, written) ==
    /\ conns[c].pc = "registered"
    /\ WriteLine(c, conns[c].line, ResponseOk, written)
    /\ UNCHANGED <<now, running, clients, client_channels, stop_channels, units,
                   cleanup, gen, ping_pc, accept_pc, regular>>

\* handle_stream_command returned Response::Ok; handle_tcp_client writes it.
WriteStreamResponse(c, written) ==
    /\ conns[c].pc = "spawned"
    /\ WriteLine(c, conns[c].line, ResponseOk, written)
    /\ UNCHANGED <<now, running, clients, client_channels, stop_channels, units,
                   cleanup, gen, ping_pc, accept_pc, regular>>


\* --------------------------------------------- Server::ping_listener_loop
\* while running.load() fails: the listener leaves its loop.
PingStop ==
    /\ ping_pc = "listen"
    /\ ~running
    /\ ping_pc' = "done"
    /\ out' = NoOutput
    /\ UNCHANGED <<now, running, clients, client_channels, stop_channels, units,
                   conns, cleanup, gen, accept_pc, regular>>

\* The history variable regular after a PING from ip was processed.
Heard(reg, cl, ip, instant) ==
    [t \in Targets |->
        IF t \in DOMAIN cl /\ cl[t].source_ip = ip /\ reg[t] # -1
        THEN instant ELSE reg[t]]

\* recv_from returned a datagram with payload msg from ip (a recv_from that
\* times out changes nothing and is no step).
PingRecv(ip, msg) ==
    /\ ping_pc = "listen"
    /\ running
    /\ IF IsPingPayload(msg)
       THEN /\ IF FindBySource(clients, ip) = {}
               THEN /\ clients' = clients
                    /\ out' = [kind |-> "pong", to |-> ip, payload |-> msg,
                               found |-> FALSE]
               ELSE \E found \in FindBySource(clients, ip) :
                    /\ clients' = update_ping_by_source(clients, found, now)
                    /\ out' = [kind |-> "pong", to |-> ip, payload |-> msg,
                               found |-> TRUE]
            /\ regular' = Heard(regular, clients, ip, now)
       ELSE /\ out' = [kind |-> "ignored", to |-> ip, payload |-> msg]
            /\ UNCHANGED <<clients, regular>>
    /\ UNCHANGED <<now, running, client_channels, stop_channels, units, conns,
                   cleanup, gen, ping_pc, accept_pc>>

\* --------------------------------------------------- Server::cleanup_loop
\* while running.load() fails: the cleanup thread leaves its loop.
CleanupStop ==
    /\ cleanup.pc = "sleep"
    /\ ~running
    /\ cleanup' = [cleanup EXCEPT !.pc = "done"]
    /\ out' = NoOutput
    /\ UNCHANGED <<now, running, clients, client_channels, stop_channels, units,
                   conns, gen, ping_pc, accept_pc, regular>>

\* The sleep and client_manager.remove_expired(). The registry lock is held
\* for the whole retain(); is_expired of record t reads the clock at
\* now + drift[t], and the returned Vec lists the removed targets in the
\* map's iteration order.
CleanupSweep ==
    /\ cleanup.pc = "sleep"
    /\ running
    /\ \E drift \in [DOMAIN clients -> 0..MaxSweepDrift] :
         LET clock == [t \in DOMAIN clients |-> now + drift[t]]
             last == now + SetMax({drift[t] : t \in DOMAIN clients})
         IN /\ last <= MaxTime
            /\ \E removed \in Orders(ExpiredTargets(clients, clock, PingTimeout)) :
                 /\ clients' = Retained(clients, clock, PingTimeout)
                 /\ cleanup' = [pc |-> IF removed = <<>> THEN "sleep" ELSE "rm_chan",
                                removed |-> removed]
                 /\ out' = [kind |-> "sweep", removed |-> removed]
            /\ now' = last
            /\ regular' = Aged(regular, last)
    /\ UNCHANGED <<running, client_channels, stop_channels, units, conns, gen,
                   ping_pc, accept_pc>>

\* client_channels.lock().remove(&addr) for the next removed target
CleanupRemoveChannel ==
    /\ cleanup.pc = "rm_chan"
    /\ LET addr == Head(cleanup.removed) IN
         /\ units' = DropQuoteTx(units, client_channels, addr)
         /\ client_channels' = MapRemove(client_channels, addr)
    /\ cleanup' = [cleanup EXCEPT !.pc = "rm_stop"]
    /\ out' = NoOutput
    /\ UNCHANGED <<now, running, clients, stop_channels, conns, gen, ping_pc,
                   accept_pc, regular>>

\* tx.send(()) on a stop channel, and the drop of tx that follows.
SendStop(us, m, addr) ==
    IF addr \in DOMAIN m
    THEN [us EXCEPT ![m[addr]].stop_q =
                        IF us[m[addr]].state = "Stopped" THEN 0 ELSE @ + 1,
                    ![m[addr]].stop_tx = FALSE]
    ELSE us

\* stop_channels.lock().remove(&addr) and tx.send(()) for that target
CleanupRemoveStop ==
    /\ cleanup.pc = "rm_stop"
    /\ LET addr == Head(cleanup.removed) IN
         /\ units' = SendStop(units, stop_channels, addr)
         /\ stop_channels' = MapRemove(stop_channels, addr)
    /\ cleanup' = [pc |-> IF Tail(cleanup.removed) = <<>> THEN "sleep" ELSE "rm_chan",
                   removed |-> Tail(cleanup.removed)]
    /\ out' = NoOutput
    /\ UNCHANGED <<now, running, clients, client_channels, conns, gen, ping_pc,
                   accept_pc, regular>>

\* ------------------------------------------- Server::quote_generator_loop
\* while running.load() and the sleep: a round over ALL_TICKERS begins.
GenWake ==
    /\ gen.pc = "sleep"
    /\ running
    /\ gen.round < MaxRounds
    /\ gen' = [pc |-> "emit", i |-> 1, round |-> gen.round + 1]
    /\ out' = NoOutput
    /\ UNCHANGED <<now, running, clients, client_channels, stop_channels, units,
                   conns, cleanup, ping_pc, accept_pc, regular>>

\* while running.load() fails: the generator leaves its loop.
GenStop ==
    /\ gen.pc = "sleep"
    /\ ~running
    /\ gen' = [gen EXCEPT !.pc = "done"]
    /\ out' = NoOutput
    /\ UNCHANGED <<now, running, clients, client_channels, stop_channels, units,
                   conns, cleanup, ping_pc, accept_pc, regular>>

\* Broadcast over every channel ever created, replaced senders included.
BroadcastToAll(us, m, quote) ==
    [u \in DOMAIN us |->
        IF us[u].state # "Stopped"
        THEN [us[u] EXCEPT !.quote_q = Append(@, quote)]
        ELSE us[u]]

\* Broadcast that leaves the for loop after the first sender.
BroadcastFirstOnly(us, m, quote) ==
    [u \in DOMAIN us |->
        IF (\E a \in DOMAIN m : m[a] = u) /\ us[u].state # "Stopped"
           /\ \A a \in DOMAIN m : u <= m[a]
        THEN [us[u] EXCEPT !.quote_q = Append(@, quote)]
        ELSE us[u]]

\* Broadcast that gives up at a failed send (sender.send(..)? for let _ =).
BroadcastFailFast(us, m, quote) ==
    IF \E a \in DOMAIN m : us[m[a]].state = "Stopped" THEN us
    ELSE [u \in DOMAIN us |->
            IF \E a \in DOMAIN m : m[a] = u
            THEN [us[u] EXCEPT !.quote_q = Append(@, quote)]
            ELSE us[u]]

\* sender.send(quote.clone()) on every Sender of the map; a send to a channel
\* whose receiver is gone returns an error, which is dropped.
Broadcast(us, m, quote) ==
    [u \in DOMAIN us |->
        IF (\E a \in DOMAIN m : m[a] = u) /\ us[u].state # "Stopped"
        THEN [us[u] EXCEPT !.quote_q = Append(@, quote)]
        ELSE us[u]]

\* An iteration whose failed generate() ends the generator loop.
GenEmitFatal(generated) ==
    /\ gen.pc = "emit"
    /\ LET quote == [ticker |-> ALL_TICKERS[gen.i], round |-> gen.round]
           after == IF generated THEN Broadcast(units, client_channels, quote)
                    ELSE units
           sends == IF generated THEN {client_channels[a] : a \in DOMAIN client_channels}
                    ELSE {}
       IN /\ units' = after
          /\ out' = [kind |-> "emit", quote |-> quote, generated |-> generated,
                     pushed |-> {u \in sends : after[u].quote_q # units[u].quote_q},
                     failed |-> {u \in sends : after[u].quote_q = units[u].quote_q}]
    /\ gen' = IF ~generated THEN [gen EXCEPT !.pc = "done"]
              ELSE IF gen.i = Len(ALL_TICKERS)
              THEN [gen EXCEPT !.pc = "sleep", !.i = 0]
              ELSE [gen EXCEPT !.i = @ + 1]
    /\ UNCHANGED <<now, running, clients, client_channels, stop_channels, conns,
                   cleanup, ping_pc, accept_pc, regular>>

\* One iteration of the for loop: generator.generate(ticker) returns a quote
\* (generated) or an error; a quote is sent under the client_channels lock.
GenEmit(generated) ==
    /\ gen.pc = "emit"
    /\ LET quote == [ticker |-> ALL_TICKERS[gen.i], round |-> gen.round]
           after == IF generated THEN Broadcast(units, client_channels, quote)
                    ELSE units
           sends == IF generated THEN {client_channels[a] : a \in DOMAIN client_channels}
                    ELSE {}
       IN /\ units' = after
          /\ out' = [kind |-> "emit", quote |-> quote, generated |-> generated,
                     pushed |-> {u \in sends : after[u].quote_q # units[u].quote_q},
                     failed |-> {u \in sends : after[u].quote_q = units[u].quote_q}]
    /\ gen' = IF gen.i = Len(ALL_TICKERS)
              THEN [gen EXCEPT !.pc = "sleep", !.i = 0]
              ELSE [gen EXCEPT !.i = @ + 1]
    /\ UNCHANGED <<now, running, clients, client_channels, stop_channels, conns,
                   cleanup, ping_pc, accept_pc, regular>>

\* ------------------------------------------ client_handler::ClientStreamer
\* A streamer thread that ended: its receivers are dropped.
Ended(unit, reason) ==
    [unit EXCEPT !.state = "Stopped", !.exit = reason, !.quote_q = <<>>,
                 !.stop_q = 0]

\* ClientStreamer::new in the spawned thread: UdpSocket::bind succeeds (bound)
\* and run() starts, or fails and the thread ends.
UnitStart(u, bound) ==
    /\ units[u].state = "Spawned"
    /\ units' = [units EXCEPT ![u] =
                    IF bound THEN [@ EXCEPT !.state = "CheckStop"]
                    ELSE Ended(@, "bind_error")]
    /\ out' = NoOutput
    /\ UNCHANGED <<now, running, clients, client_channels, stop_channels, conns,
                   cleanup, gen, ping_pc, accept_pc, regular>>

\* stream_loop whose try_recv result is not looked at.
UnitCheckStopIgnored(u) ==
    /\ units[u].state = "CheckStop"
    /\ units' = [units EXCEPT ![u].state = "RecvQuote"]
    /\ out' = NoOutput
    /\ UNCHANGED <<now, running, clients, client_channels, stop_channels, conns,
                   cleanup, gen, ping_pc, accept_pc, regular>>

\* stream_loop: self.stop_rx.try_recv(); Ok(()) when a stop message is queued,
\* Disconnected when none is queued and the sender is dropped, else Empty.
UnitCheckStop(u) ==
    /\ units[u].state = "CheckStop"
    /\ units' = [units EXCEPT ![u] =
                    IF @.stop_q > 0 THEN Ended(@, "stop")
                    ELSE IF ~@.stop_tx THEN Ended(@, "stop_disconnected")
                    ELSE [@ EXCEPT !.state = "RecvQuote"]]
    /\ out' = NoOutput
    /\ UNCHANGED <<now, running, clients, client_channels, stop_channels, conns,
                   cleanup, gen, ping_pc, accept_pc, regular>>

\* maybe_send_quote without the tickers.contains test.
maybe_send_quote_unfiltered(unit, quote, delivered) ==
    IF delivered THEN "sent" ELSE "error"

\* ClientStreamer::maybe_send_quote: "skip" when the ticker is not subscribed,
\* else "sent" or "error" as socket.send_to succeeds (delivered) or fails.
maybe_send_quote(unit, quote, delivered) ==
    IF ~TickersContains(unit.tickers, quote.ticker) THEN "skip"
    ELSE IF delivered THEN "sent" ELSE "error"

\* stream_loop after maybe_send_quote returned: `?` returns its error.
AfterSend(unit, result) ==
    IF result = "error" THEN Ended(unit, "send_error")
    ELSE [unit EXCEPT !.state = "CheckStop", !.quote_q = Tail(@)]

\* stream_loop: self.quote_rx.recv_timeout(..) returned a quote
UnitRecvQuote(u, delivered) ==
    /\ units[u].state = "RecvQuote"
    /\ units[u].quote_q # <<>>
    /\ LET quote == Head(units[u].quote_q)
           result == maybe_send_quote(units[u], quote, delivered)
       IN /\ units' = [units EXCEPT ![u] = AfterSend(@, result)]
          /\ out' = [kind |-> result, unit |-> u, to |-> units[u].addr,
                     quote |-> quote]
    /\ UNCHANGED <<now, running, clients, client_channels, stop_channels, conns,
                   cleanup, gen, ping_pc, accept_pc, regular>>

\* stream_loop that treats Disconnected like Timeout.
UnitRecvNoneKeepsLooping(u) ==
    /\ units[u].state = "RecvQuote"
    /\ units[u].quote_q = <<>>
    /\ units' = [units EXCEPT ![u].state = "CheckStop"]
    /\ out' = NoOutput
    /\ UNCHANGED <<now, running, clients, client_channels, stop_channels, conns,
                   cleanup, gen, ping_pc, accept_pc, regular>>

\* stream_loop: recv_timeout returned Timeout or Disconnected
UnitRecvNone(u) ==
    /\ units[u].state = "RecvQuote"
    /\ units[u].quote_q = <<>>
    /\ units' = [units EXCEPT ![u] =
                    IF @.quote_tx THEN [@ EXCEPT !.state = "CheckStop"]
                    ELSE Ended(@, "closed")]
    /\ out' = NoOutput
    /\ UNCHANGED <<now, running, clients, client_channels, stop_channels, conns,
                   cleanup, gen, ping_pc, accept_pc, regular>>

\* ------------------------------------- client_handler::ClientManager calls
\* The Topic Sets a caller passes to register.
ManagerTickers == {ParseCommand(line).value.tickers : line \in TwoStreamLines}

\* manager.register(target, &tickers, source_ip) by any thread holding a clone
\* of the manager; the insert is done under the clients lock.
MgrRegister(target, tickers, source_ip) ==
    /\ clients' = register(clients, target, tickers, source_ip, now)
    /\ out' = [kind |-> "register", target |-> target, tickers |-> tickers,
               source_ip |-> source_ip, known |-> target \in DOMAIN clients]
    /\ UNCHANGED <<now, running, client_channels, stop_channels, units, conns,
                   cleanup, gen, ping_pc, accept_pc, regular>>

\* manager.update_ping(&target)
MgrUpdatePing(target) ==
    /\ clients' = update_ping(clients, target, now)
    /\ out' = [kind |-> "update_ping", target |-> target,
               result |-> update_ping_result(clients, target)]
    /\ UNCHANGED <<now, running, client_channels, stop_channels, units, conns,
                   cleanup, gen, ping_pc, accept_pc, regular>>

\* manager.update_ping_by_source(&source_addr)
MgrUpdatePingBySource(ip) ==
    /\ IF FindBySource(clients, ip) = {}
       THEN /\ clients' = clients
            /\ out' = [kind |-> "update_ping_by_source", ip |-> ip,
                       result |-> FALSE]
       ELSE \E found \in FindBySource(clients, ip) :
            /\ clients' = update_ping_by_source(clients, found, now)
            /\ out' = [kind |-> "update_ping_by_source", ip |-> ip,
                       result |-> TRUE]
    /\ UNCHANGED <<now, running, client_channels, stop_channels, units, conns,
                   cleanup, gen, ping_pc, accept_pc, regular>>

\* manager.remove(&target)
MgrRemove(target) ==
    /\ clients' = MapRemove(clients, target)
    /\ out' = [kind |-> "remove", target |-> target]
    /\ UNCHANGED <<now, running, client_channels, stop_channels, units, conns,
                   cleanup, gen, ping_pc, accept_pc, regular>>

\* ------------------------------------------------------------------- Next
\* The steps of the control connections.
ControlNext(lines) ==
    \/ \E c \in Conns : Accept(c)
    \/ \E c \in Conns, line \in lines \cap PingLines, w \in BOOLEAN :
          HandlePingLine(c, line, w)
    \/ \E c \in Conns, line \in lines \cap BadLines, w \in BOOLEAN :
          HandleBadLine(c, line, w)
    \/ \E c \in Conns : ConnClose(c)
    \/ \E c \in Conns, line \in lines \cap StreamLines : HandleStreamLine(c, line)
    \/ \E c \in Conns : InsertQuoteChannel(c)
    \/ \E c \in Conns : InsertStopChannel(c)
    \/ \E c \in Conns : SpawnStreamer(c)
    \/ \E c \in Conns, w \in BOOLEAN : WriteStreamResponse(c, w)

\* The steps of the cleanup thread.
CleanupNext ==
    \/ CleanupSweep
    \/ CleanupRemoveChannel
    \/ CleanupRemoveStop

\* The steps of the streamer threads.
StreamerNext ==
    \/ \E u \in UnitIds, b \in BOOLEAN : UnitStart(u, b)
    \/ \E u \in UnitIds : UnitCheckStop(u)
    \/ \E u \in UnitIds, d \in BOOLEAN : UnitRecvQuote(u, d)
    \/ \E u \in UnitIds : UnitRecvNone(u)

\* The steps of the generator thread.
GeneratorNext ==
    \/ GenWake
    \/ \E g \in BOOLEAN : GenEmit(g)

\* The steps by which the loops end after shutdown.
StopNext ==
    \/ Shutdown
    \/ AcceptorStop
    \/ PingStop
    \/ CleanupStop
    \/ GenStop

Next ==
    \/ Tick
    \/ ControlNext(Lines)
    \/ \E ip \in SourceIps, msg \in Payloads : PingRecv(ip, msg)
    \/ CleanupNext
    \/ GeneratorNext
    \/ StreamerNext
    \/ StopNext

Spec == Init /\ [][Next]_vars


\* -------------------------------------------------------------- scenarios
\* One control connection subscribes; the generator and the streamers run;
\* sockets may fail. The clock stands still, so nothing expires.
StreamingNext ==
    \/ Accept("c1")
    \/ \E line \in TwoStreamLines : HandleStreamLine("c1", line)
    \/ InsertQuoteChannel("c1")
    \/ InsertStopChannel("c1")
    \/ SpawnStreamer("c1")
    \/ WriteStreamResponse("c1", TRUE)
    \/ GenWake
    \/ GenEmit(TRUE)
    \/ \E u \in UnitIds, b \in BOOLEAN : UnitStart(u, b)
    \/ \E u \in UnitIds : UnitCheckStop(u)
    \/ \E u \in UnitIds, d \in BOOLEAN : UnitRecvQuote(u, d)
    \/ \E u \in UnitIds : UnitRecvNone(u)

SpecStreaming == Init /\ [][StreamingNext]_vars

\* One control connection subscribes; the clock advances, PING datagrams
\* arrive and the cleanup thread sweeps. The streamer threads and the
\* generator take no step.
RegistryNext ==
    \/ Tick
    \/ Accept("c1")
    \/ \E line \in StreamLines : HandleStreamLine("c1", line)
    \/ InsertQuoteChannel("c1")
    \/ InsertStopChannel("c1")
    \/ SpawnStreamer("c1")
    \/ WriteStreamResponse("c1", TRUE)
    \/ \E ip \in SourceIps, msg \in Payloads : PingRecv(ip, msg)
    \/ CleanupSweep
    \/ CleanupRemoveChannel
    \/ CleanupRemoveStop

SpecRegistry == Init /\ [][RegistryNext]_vars

\* Two control connections send every kind of line; writes may fail and
\* peers may close. The streamers start; nothing else runs.
ControlOnlyNext ==
    \/ \E c \in Conns : Accept(c)
    \/ \E c \in Conns, line \in PingLines, w \in BOOLEAN : HandlePingLine(c, line, w)
    \/ \E c \in Conns, line \in BadLines, w \in BOOLEAN : HandleBadLine(c, line, w)
    \/ \E c \in Conns : ConnClose(c)
    \/ \E c \in Conns, line \in TwoStreamLines : HandleStreamLine(c, line)
    \/ \E c \in Conns : InsertQuoteChannel(c)
    \/ \E c \in Conns : InsertStopChannel(c)
    \/ \E c \in Conns : SpawnStreamer(c)
    \/ \E c \in Conns, w \in BOOLEAN : WriteStreamResponse(c, w)
    \/ \E u \in UnitIds, b \in BOOLEAN : UnitStart(u, b)

SpecControl == Init /\ [][ControlOnlyNext]_vars

\* One control connection subscribes and never sends a PING; the clock
\* advances, the cleanup thread sweeps, the generator and the streamers run
\* and no socket fails.
ExpiryNext ==
    \/ Tick
    \/ Accept("c1")
    \/ \E line \in TwoStreamLines : HandleStreamLine("c1", line)
    \/ InsertQuoteChannel("c1")
    \/ InsertStopChannel("c1")
    \/ SpawnStreamer("c1")
    \/ WriteStreamResponse("c1", TRUE)
    \/ CleanupSweep
    \/ CleanupRemoveChannel
    \/ CleanupRemoveStop
    \/ GenWake
    \/ GenEmit(TRUE)
    \/ \E u \in UnitIds : UnitStart(u, TRUE)
    \/ \E u \in UnitIds : UnitCheckStop(u)
    \/ \E u \in UnitIds : UnitRecvQuote(u, TRUE)
    \/ \E u \in UnitIds : UnitRecvNone(u)

SpecExpiry == Init /\ [][ExpiryNext]_vars


\* The steps of streamer thread u when no socket fails.
UnitStep(u) ==
    /\ u \in UnitIds
    /\ \/ UnitStart(u, TRUE)
       \/ UnitCheckStop(u)
       \/ UnitRecvQuote(u, TRUE)
       \/ UnitRecvNone(u)

\* The steps of the handler thread of connection c1 that do not wait for the
\* client.
HandlerStep ==
    \/ InsertQuoteChannel("c1")
    \/ InsertStopChannel("c1")
    \/ SpawnStreamer("c1")
    \/ WriteStreamResponse("c1", TRUE)

\* The steps of the generator thread.
GeneratorStep == GenWake \/ GenEmit(TRUE) \/ GenStop

\* The steps of the cleanup thread.
CleanupStep ==
    CleanupSweep \/ CleanupRemoveChannel \/ CleanupRemoveStop \/ CleanupStop

\* The STREAM lines that name the first target.
FirstTargetLines ==
    {line \in TwoStreamLines : ParseCommand(line).value.udp_addr = Addr1}

\* Shutdown: one control connection subscribes, every thread of the server
\* runs and is scheduled again and again, and the running flag may be cleared
\* at any moment. The client decides when it sends a line and when it closes
\* the connection. The clock advances only while a sweep is under way.
ShutdownNext ==
    \/ Shutdown
    \/ Accept("c1")
    \/ AcceptorStop
    \/ \E line \in FirstTargetLines : HandleStreamLine("c1", line)
    \/ HandlerStep
    \/ ConnClose("c1")
    \/ PingStop
    \/ CleanupStep
    \/ GeneratorStep
    \/ \E u \in 1..MaxUnits : UnitStep(u)

SpecShutdown ==
    /\ Init
    /\ [][ShutdownNext]_vars
    /\ WF_vars(AcceptorStop)
    /\ WF_vars(HandlerStep)
    /\ WF_vars(PingStop)
    /\ WF_vars(CleanupStep)
    /\ WF_vars(GeneratorStep)
    /\ \A u \in 1..MaxUnits : WF_vars(UnitStep(u))

\* Stopping of streamers: one client subscribes to one target, possibly twice,
\* and sends no heartbeat; the clock advances, the cleanup thread sweeps and
\* tears down, the generator and the streamers run, every thread is scheduled
\* again and again, and the running flag may be cleared at any moment.
StoppingNext ==
    \/ Tick
    \/ Shutdown
    \/ Accept("c1")
    \/ \E line \in FirstTargetLines : HandleStreamLine("c1", line)
    \/ HandlerStep
    \/ CleanupStep
    \/ GeneratorStep
    \/ \E u \in 1..MaxUnits : UnitStep(u)

SpecStopping ==
    /\ Init
    /\ [][StoppingNext]_vars
    /\ WF_vars(HandlerStep)
    /\ WF_vars(CleanupStep)
    /\ WF_vars(GeneratorStep)
    /\ \A u \in 1..MaxUnits : WF_vars(UnitStep(u))

\* Heartbeats: one control connection subscribes and sends PING lines, PING
\* datagrams and other datagrams arrive at the heartbeat port, the clock
\* advances and the cleanup thread sweeps.
HeartbeatNext ==
    \/ Tick
    \/ Accept("c1")
    \/ \E line \in TwoStreamLines : HandleStreamLine("c1", line)
    \/ HandlerStep
    \/ \E line \in PingLines : HandlePingLine("c1", line, TRUE)
    \/ \E ip \in SourceIps, msg \in Payloads : PingRecv(ip, msg)
    \/ CleanupSweep
    \/ CleanupRemoveChannel
    \/ CleanupRemoveStop

SpecHeartbeat == Init /\ [][HeartbeatNext]_vars

\* The ClientManager alone: its operations called in any order by threads
\* sharing it, while the clock advances and the cleanup sweeps.
ManagerNext ==
    \/ Tick
    \/ \E target \in Targets, tickers \in ManagerTickers, ip \in SourceIps :
          MgrRegister(target, tickers, ip)
    \/ \E target \in Targets : MgrUpdatePing(target)
    \/ \E ip \in SourceIps : MgrUpdatePingBySource(ip)
    \/ \E target \in Targets : MgrRemove(target)
    \/ CleanupSweep
    \/ CleanupRemoveChannel
    \/ CleanupRemoveStop

SpecManager == Init /\ [][ManagerNext]_vars

\* Generation: one control connection subscribes, the generator runs and
\* generate() may fail for any ticker; the streamers run and no socket fails.
GenerationNext ==
    \/ Accept("c1")
    \/ \E line \in TwoStreamLines : HandleStreamLine("c1", line)
    \/ HandlerStep
    \/ GenWake
    \/ \E generated \in BOOLEAN : GenEmit(generated)
    \/ \E u \in 1..MaxUnits : UnitStep(u)

SpecGeneration == Init /\ [][GenerationNext]_vars

\* The STREAM lines that name the first target, with different tickers.
SameTargetLines ==
    {line \in StreamLines : ParseCommand(line).value.udp_addr = Addr1}

\* Concurrent subscribes: two control connections send STREAM commands for one
\* target, their handler threads run side by side, the generator and the
\* streamers run; no socket fails and the clock stands still.
ConcurrentNext ==
    \/ \E c \in Conns : Accept(c)
    \/ \E c \in Conns, line \in SameTargetLines : HandleStreamLine(c, line)
    \/ \E c \in Conns : InsertQuoteChannel(c)
    \/ \E c \in Conns : InsertStopChannel(c)
    \/ \E c \in Conns : SpawnStreamer(c)
    \/ \E c \in Conns : WriteStreamResponse(c, TRUE)
    \/ GenWake
    \/ GenEmit(TRUE)
    \/ \E u \in 1..MaxUnits : UnitStep(u)

SpecConcurrent == Init /\ [][ConcurrentNext]_vars

\* ------------------------------------------------- the locks of the server
\* Each thread as the cycle of its calls that block, take a lock or give one
\* up; out holds the position of every thread and the holder of every lock.
\* A MutexGuard made inside a statement is given up at the end of that
\* statement; the guard bound by `let channels` in quote_generator_loop and
\* the one bound by `let mut clients` in remove_expired at the end of their
\* blocks. The log macros are not taken as calls that block: src/ installs no
\* logger. A send on an unbounded channel does not block.
\*
\* A call is <<"io", name>> for one that blocks on a socket, a connection or
\* the timer, <<"acquire", lock>> for Mutex::lock, <<"release", lock>> for the
\* end of a guard, and <<"work", name>> for any other.

\* Threads that keep a lock while they block or take the next lock: the
\* handler keeps the registry lock until both senders are inserted, and the
\* cleanup thread takes the locks in the opposite order.
ProgramsNested ==
    [generator |->
        <<<<"io", "thread::sleep">>, <<"work", "generate">>, <<"acquire", "client_channels">>,
          <<"work", "sender.send">>, <<"release", "client_channels">>>>,
     ping |->
        <<<<"io", "recv_from">>, <<"acquire", "clients">>, <<"work", "touch">>, <<"release", "clients">>,
          <<"io", "send_to">>>>,
     cleanup |->
        <<<<"io", "thread::sleep">>, <<"acquire", "stop_channels">>, <<"acquire", "client_channels">>,
          <<"acquire", "clients">>, <<"work", "retain">>, <<"work", "remove">>, <<"work", "remove">>,
          <<"release", "clients">>, <<"release", "client_channels">>, <<"release", "stop_channels">>,
          <<"work", "tx.send">>>>,
     c1 |->
        <<<<"io", "lines.next">>, <<"acquire", "clients">>, <<"work", "insert">>,
          <<"acquire", "client_channels">>, <<"work", "insert">>,
          <<"acquire", "stop_channels">>, <<"work", "insert">>,
          <<"release", "stop_channels">>, <<"release", "client_channels">>, <<"release", "clients">>,
          <<"work", "thread::spawn">>, <<"io", "writeln">>>>,
     c2 |->
        <<<<"io", "lines.next">>, <<"acquire", "clients">>, <<"work", "insert">>, <<"release", "clients">>,
          <<"io", "writeln">>>>]

\* quote_generator_loop (one ticker of a round), ping_listener_loop with
\* update_ping_by_source, cleanup_loop with remove_expired (one removed
\* target), and handle_tcp_client with handle_stream_command and register on
\* each of the two connections.
Programs ==
    [generator |->
        <<<<"io", "thread::sleep">>, <<"work", "generate">>, <<"acquire", "client_channels">>,
          <<"work", "sender.send">>, <<"release", "client_channels">>>>,
     ping |->
        <<<<"io", "recv_from">>, <<"acquire", "clients">>, <<"work", "touch">>, <<"release", "clients">>,
          <<"io", "send_to">>>>,
     cleanup |->
        <<<<"io", "thread::sleep">>, <<"acquire", "clients">>, <<"work", "retain">>, <<"release", "clients">>,
          <<"acquire", "client_channels">>, <<"work", "remove">>, <<"release", "client_channels">>,
          <<"acquire", "stop_channels">>, <<"work", "remove">>, <<"release", "stop_channels">>,
          <<"work", "tx.send">>>>,
     c1 |->
        <<<<"io", "lines.next">>, <<"acquire", "clients">>, <<"work", "insert">>, <<"release", "clients">>,
          <<"acquire", "client_channels">>, <<"work", "insert">>, <<"release", "client_channels">>,
          <<"acquire", "stop_channels">>, <<"work", "insert">>, <<"release", "stop_channels">>,
          <<"work", "thread::spawn">>, <<"io", "writeln">>>>,
     c2 |->
        <<<<"io", "lines.next">>, <<"acquire", "clients">>, <<"work", "insert">>, <<"release", "clients">>,
          <<"acquire", "client_channels">>, <<"work", "insert">>, <<"release", "client_channels">>,
          <<"acquire", "stop_channels">>, <<"work", "insert">>, <<"release", "stop_channels">>,
          <<"work", "thread::spawn">>, <<"io", "writeln">>>>]

Threads == DOMAIN Programs
Locks == {"clients", "client_channels", "stop_channels"}

\* Server::run spawned the threads; every Mutex is free.
LocksInit ==
    InitWith([kind |-> "locks", pc |-> [th \in Threads |-> 1],
              holder |-> [lock \in Locks |-> "free"]])

\* The call thread th is at (to be made next).
At(th) == Programs[th][out.pc[th]]

\* Mutex::lock returns only when the mutex is free (parking_lot's Mutex is not
\* reentrant); every other call can be made at once.
CanStep(th) == At(th)[1] = "acquire" => out.holder[At(th)[2]] = "free"

\* Thread th makes the call it is at and goes on to the next of its cycle.
LockStep(th) ==
    /\ out.kind = "locks"
    /\ CanStep(th)
    /\ out' = [out EXCEPT
                 !.pc[th] = (@ % Len(Programs[th])) + 1,
                 !.holder = IF At(th)[1] = "acquire"
                            THEN [@ EXCEPT ![At(th)[2]] = th]
                            ELSE IF At(th)[1] = "release"
                            THEN [@ EXCEPT ![At(th)[2]] = "free"]
                            ELSE @]
    /\ UNCHANGED ServerVars

LocksNext == \E th \in Threads : LockStep(th)

SpecLocks == LocksInit /\ [][LocksNext]_vars

\* ------------------------------------------ a QuoteGenerator and its caller
\* out holds the generator (its prices) with the arguments and the result of
\* the last call on it.

\* QuoteGenerator::with_prices: no price, a price below, at and above
\* TICKER_MIN_PRICE, and the price of QuoteGenerator::default.
GeneratorInit ==
    \E price \in {[m |-> 50, scale |-> 2], TICKER_MIN_PRICE,
                  [m |-> 200, scale |-> 2], [m |-> 28500, scale |-> 2]},
       known \in BOOLEAN :
        InitWith([kind |-> "with_prices", calls |-> 0,
                  prices |-> IF known THEN MapInsert(EmptyMap, ALL_TICKERS[1], price)
                             ELSE EmptyMap])

\* What one call reads from the random number generator and from the clock.
Draws ==
    {[n |-> n, v |-> 0, clock |-> 1] : n \in {0, 1000, 5000, 9000, 9999}}
      \cup {[n |-> 5000, v |-> 999, clock |-> 1], [n |-> 5000, v |-> 0, clock |-> -1]}

\* The tickers handed to the generator: a standard one, an unknown one and one
\* that StockQuote::new rejects.
GeneratorTickers == <<ALL_TICKERS[1], <<"X">>, <<"A", "|", "B">>>>

\* The product of the ticker's price and the change factor of draw n is exact.
Exact(ticker, n) ==
    LET price == IF ticker \in DOMAIN out.prices THEN out.prices[ticker]
                 ELSE UNKNOWN_TICKER_DEFAULT_PRICE
    IN price.m <= MaxMantissa \div random_change_factor(n).m

\* generator.generate(ticker)
GenerateStep(ticker, draw) ==
    LET made == generate(out.prices, ticker, draw) IN
    /\ out.calls < MaxCalls
    /\ Exact(ticker, draw.n)
    /\ out' = [kind |-> "generate", calls |-> out.calls + 1,
               prices |-> made.prices, ticker |-> ticker, draw |-> draw,
               before |-> IF ticker \in DOMAIN out.prices THEN out.prices[ticker]
                          ELSE UNKNOWN_TICKER_DEFAULT_PRICE,
               result |-> made.result]
    /\ UNCHANGED ServerVars

\* generator.generate_batch(&tickers); every generate of the batch reads the
\* same draw.
GenerateBatchStep(tickers, draw) ==
    LET made == generate_batch(out.prices, tickers,
                               [i \in DOMAIN tickers |-> draw]) IN
    /\ out.calls < MaxCalls
    /\ \A i \in DOMAIN tickers : Exact(tickers[i], draw.n)
    /\ out' = [kind |-> "generate_batch", calls |-> out.calls + 1,
               prices |-> made.prices, tickers |-> tickers, draw |-> draw,
               result |-> made.result]
    /\ UNCHANGED ServerVars

QuoteGeneratorNext ==
    \/ \E ticker \in Range(GeneratorTickers), draw \in Draws :
          GenerateStep(ticker, draw)
    \/ \E tickers \in {GeneratorTickers, SubSeq(GeneratorTickers, 1, 2)},
          draw \in Draws :
          GenerateBatchStep(tickers, draw)

SpecGenerator == GeneratorInit /\ [][QuoteGeneratorNext]_vars

\* ------------------------------------------- the library applied by a caller
\* common::protocol and common::quote are pure: a step is one call, out holds
\* its arguments and what it returned, and a behaviour is one call, since no
\* call depends on an earlier one.

\* s.parse::<Tickers>(), and the to_string() of the value parsed again.
ParseTickersStep(s) ==
    LET parsed == ParseTickers(s) IN
    /\ out = NoOutput
    /\ out' = [kind |-> "parse_tickers", text |-> s, result |-> parsed,
               again |-> IF parsed.ok THEN ParseTickers(TickersText(parsed.value))
                         ELSE parsed]
    /\ UNCHANGED ServerVars

\* line.parse::<Command>()
ParseCommandStep(line) ==
    /\ out = NoOutput
    /\ out' = [kind |-> "parse_command", text |-> line,
               result |-> ParseCommand(line)]
    /\ UNCHANGED ServerVars

\* cmd.to_string(), and the text parsed again.
CommandTextStep(cmd) ==
    /\ out = NoOutput
    /\ out' = [kind |-> "command_text", cmd |-> cmd, text |-> CommandText(cmd),
               result |-> ParseCommand(CommandText(cmd))]
    /\ UNCHANGED ServerVars

\* response.to_string(), and the text parsed again.
ResponseTextStep(response) ==
    /\ out = NoOutput
    /\ out' = [kind |-> "response_text", response |-> response,
               text |-> ResponseText(response),
               result |-> ParseResponse(ResponseText(response))]
    /\ UNCHANGED ServerVars

\* StockQuote::new(ticker, price, volume), and the to_string() of the quote
\* parsed again.
NewQuoteStep(a) ==
    LET made == StockQuoteNew(a[1], a[2], a[3], a[4]) IN
    /\ out = NoOutput
    /\ out' = [kind |-> "quote_new", ticker |-> a[1], result |-> made,
               again |-> IF made.ok THEN ParseQuote(QuoteText(made.value))
                         ELSE made]
    /\ UNCHANGED ServerVars

\* text.parse::<StockQuote>()
ParseQuoteStep(text) ==
    /\ out = NoOutput
    /\ out' = [kind |-> "parse_quote", text |-> text, result |-> ParseQuote(text)]
    /\ UNCHANGED ServerVars

\* ClientStreamer::maybe_send_quote for a quote of the subscriber's tickers:
\* the datagram handed to socket.send_to is quote.to_bytes().
DatagramStep(quote) ==
    /\ out = NoOutput
    /\ out' = [kind |-> "datagram", quote |-> quote, data |-> to_bytes(quote)]
    /\ UNCHANGED ServerVars

CodecNext ==
    \/ \E s \in Texts({"a", "B", " ", ","}, MaxTextLen) : ParseTickersStep(s)
    \/ \E words \in Texts({<<>>, STREAM, <<"s", "t", "r", "e", "a", "m">>, PING,
                           <<"P", "i", "n", "g">>, <<"f", "o", "o">>, UrlText(Addr1),
                           <<"a", "a", "p", "l">>}, MaxTokens) :
          ParseCommandStep(Join(words, " "))
    \/ CommandTextStep([tag |-> "Ping"])
    \/ \E a \in Targets, s \in Texts({"a", "B", " ", ","}, MaxTextLen) :
          /\ ParseTickers(s).ok
          /\ CommandTextStep([tag |-> "Stream", udp_addr |-> a,
                              tickers |-> ParseTickers(s).value])
    \/ ResponseTextStep(ResponseOk)
    \/ \E m \in Texts({"x", " ", "O", "K"}, MaxTextLen) :
          ResponseTextStep(ResponseError(m))
    \/ \E a \in QuoteArgs : NewQuoteStep(a)
    \/ \E fields \in Texts({<<"A">>, <<"1", ".", "5">>, <<"7">>}, MaxTokens + 1) :
          ParseQuoteStep(Join(fields, "|"))
    \/ \E quote \in Quotes : DatagramStep(quote)

SpecCodec == Init /\ [][CodecNext]_vars

\* ------------------------------------------------------------------ client
\* A Client and the thread that calls run, the two threads run spawns, and a
\* caller of shutdown. The state of the client is kept in out: pc is the
\* position of run, ping and recv are the positions of the two loops, answer
\* is what send_stream_command made of the response line, pinged tells that
\* a PING was handed to the socket, seen is what the last recv_from gave.
\* Client::new: running is true, run has not been called.
ClientInit ==
    InitWith([kind |-> "client", pc |-> "connect", running |-> TRUE,
              ping |-> "unspawned", recv |-> "unspawned", line |-> <<>>,
              answer |-> "none", result |-> "none", pinged |-> FALSE,
              seen |-> "none"])

\* Client::run up to the write of the STREAM command: connect, the read
\* timeouts, bind, write_all and flush; done is false when one of them fails
\* and `?` returns the error.
ClientSendCommand(done) ==
    /\ out.kind = "client" /\ out.pc = "connect"
    /\ out' = IF done THEN [out EXCEPT !.pc = "read"]
              ELSE [out EXCEPT !.pc = "returned", !.answer = "io",
                               !.result = "err"]
    /\ UNCHANGED ServerVars

\* A run that spawns the two loops whatever the response was.
ClientReadResponseUnchecked(arrived, line) ==
    /\ out.kind = "client" /\ out.pc = "read"
    /\ LET response == ParseResponse(line)
           answer == IF ~arrived THEN "io"
                     ELSE IF ~response.ok THEN "invalid"
                     ELSE IF response.value = ResponseOk THEN "ok"
                     ELSE "error"
       IN out' = [out EXCEPT !.line = IF arrived THEN line ELSE <<>>,
                             !.answer = answer, !.pc = "join_ping",
                             !.ping = "loop", !.recv = "loop"]
    /\ UNCHANGED ServerVars

\* The rest of send_stream_command and the two spawns of run: read_line
\* (arrived is false when it fails, as it does after the read timeout),
\* response_line.parse, the match on the response, and on Ok the spawn of
\* the ping thread and of the receive thread.
ClientReadResponse(arrived, line) ==
    /\ out.kind = "client" /\ out.pc = "read"
    /\ LET response == ParseResponse(line)
           answer == IF ~arrived THEN "io"
                     ELSE IF ~response.ok THEN "invalid"
                     ELSE IF response.value = ResponseOk THEN "ok"
                     ELSE "error"
       IN out' = IF answer = "ok"
                 THEN [out EXCEPT !.line = line, !.answer = answer,
                                  !.pc = "join_ping", !.ping = "loop",
                                  !.recv = "loop"]
                 ELSE [out EXCEPT !.line = IF arrived THEN line ELSE <<>>,
                                  !.answer = answer, !.pc = "returned",
                                  !.result = "err"]
    /\ UNCHANGED ServerVars

\* A step of ping_loop: the load of running and then send_to of PING (a
\* failure is only logged) or the end of the loop; or the end of the sleep.
PingLoopTurn ==
    /\ out.kind = "client" /\ out.ping \in {"loop", "sleep"}
    /\ out' = IF out.ping = "sleep" THEN [out EXCEPT !.ping = "loop"]
              ELSE IF out.running
              THEN [out EXCEPT !.pinged = TRUE, !.ping = "sleep"]
              ELSE [out EXCEPT !.ping = "done"]
    /\ UNCHANGED ServerVars

\* Client::handle_received_data
handle_received_data(data) ==
    IF Trim(data) = PayloadPONG THEN "pong"
    ELSE IF ParseQuote(Trim(data)).ok THEN "quote" ELSE "unparsed"

\* A step of receive_loop: the load of running and then the call of
\* recv_from or the end of the loop; or the return of recv_from (arrived is
\* false when it times out or fails) and handle_received_data.
ReceiveLoopTurn(arrived, data) ==
    /\ out.kind = "client" /\ out.recv \in {"loop", "recv_from"}
    /\ out' = IF out.recv = "recv_from"
              THEN [out EXCEPT !.recv = "loop",
                               !.seen = IF arrived THEN handle_received_data(data)
                                        ELSE "timeout"]
              ELSE IF out.running THEN [out EXCEPT !.recv = "recv_from"]
              ELSE [out EXCEPT !.recv = "done"]
    /\ UNCHANGED ServerVars

\* Client::shutdown
ClientShutdown ==
    /\ out.kind = "client" /\ out.running
    /\ out' = [out EXCEPT !.running = FALSE]
    /\ UNCHANGED ServerVars

\* The two joins of run, the ping thread first, and its Ok(()).
ClientJoin ==
    /\ out.kind = "client"
    /\ \/ /\ out.pc = "join_ping" /\ out.ping = "done"
          /\ out' = [out EXCEPT !.pc = "join_recv"]
       \/ /\ out.pc = "join_recv" /\ out.recv = "done"
          /\ out' = [out EXCEPT !.pc = "returned", !.result = "ok"]
    /\ UNCHANGED ServerVars

\* The thread that calls run. The lines the control connection can hand to
\* read_line are the responses the server writes, a line that is no response,
\* and the empty line of a closed connection.
ClientRun ==
    \/ \E done \in BOOLEAN : ClientSendCommand(done)
    \/ \E arrived \in BOOLEAN,
          line \in {ResponseText(r) \o <<"\n">> :
                      r \in {ResponseOk, ResponseError(<<>>),
                             ResponseError(<<"O", "K">>),
                             ResponseError(<<"b", "a", "d">>)}}
                   \cup {<<"O", "K", "A", "Y", "\n">>, <<>>} :
          ClientReadResponse(arrived, line)
    \/ ClientJoin

\* The receive thread and the datagrams that reach its socket.
ClientReceive ==
    \E arrived \in BOOLEAN,
       data \in {PayloadPONG, PayloadPINGS, to_bytes(CHOOSE q \in Quotes : TRUE),
                 to_bytes(CHOOSE q \in Quotes : TRUE) \o <<"\n">>} :
       ReceiveLoopTurn(arrived, data)

ClientNext == ClientRun \/ PingLoopTurn \/ ClientReceive \/ ClientShutdown

\* Every call of run returns or blocks for a bounded time (the connect, the
\* read timeouts of five seconds and of half a second, the sleep of the ping
\* interval), and the three threads are scheduled.
SpecClient ==
    /\ ClientInit /\ [][ClientNext]_vars
    /\ WF_vars(ClientRun) /\ WF_vars(PingLoopTurn) /\ WF_vars(ClientReceive)

\* ==================================================================== claims
\* No Subscribe is between its register and its response.
HandlersIdle == \A c \in Conns : conns[c].pc \in {"idle", "read", "closed"}
\* The cleanup thread is between two sweeps.
CleanupIdle == cleanup.pc \in {"sleep", "done"}
\* The streamers that hold the receivers of both channels stored for target t.
Attached(t) ==
    IF t \in DOMAIN client_channels /\ t \in DOMAIN stop_channels
       /\ client_channels[t] = stop_channels[t]
    THEN {client_channels[t]} ELSE {}

\* C1: a delivery target has a record in the Registry if and only if it has an
\* entry in the quote-channel table and an entry in the stop-signal table with
\* a Streaming Unit attached to them. Stated here for the states in which no
\* Subscribe handling and no teardown is in progress, where it must hold
\* whatever "atomically" allows in between; it fails there too.
C1_RecordIffChannels ==
    (HandlersIdle /\ CleanupIdle) =>
        \A t \in Targets : t \in DOMAIN clients <=> Attached(t) # {}

\* C2: for every target with a record in the Registry there is exactly one
\* Streaming Unit in state Running bound to it, also when the unit fails to
\* start or hits a transport error. Stated for the states in which every
\* Subscribe has been answered and every spawned thread has started.
C2_OneRunningUnitPerRecord ==
    (HandlersIdle /\ \A u \in UnitIds : units[u].state # "Spawned") =>
        \A t \in DOMAIN clients :
            Cardinality({u \in UnitIds : units[u].addr = t /\ Running(u)}) = 1

\* A target whose Subscribe handling is in progress: its table entries may
\* still be those of an older Subscribe.
Subscribing(t) ==
    \E c \in Conns :
        /\ conns[c].pc \notin {"idle", "read", "closed"}
        /\ conns[c].cmd.udp_addr = t

\* C3: the cleanup tears down exactly the resources of the subscribers that
\* sweepExpired removed: a step of the cleanup thread never removes the channel
\* entries of a target that has a Registry record (and whose Subscribe has
\* been answered), and when the teardown of a removed target ends, no entry of
\* it is left unless it is being registered again.
C3_TeardownOnlyOfRemoved ==
    [][cleanup' # cleanup =>
        /\ \A t \in DOMAIN clients' :
              ~Subscribing(t) =>
                 /\ t \in DOMAIN client_channels => t \in DOMAIN client_channels'
                 /\ t \in DOMAIN stop_channels => t \in DOMAIN stop_channels'
        /\ cleanup.pc = "rm_stop" =>
              LET t == Head(cleanup.removed) IN
                 t \notin DOMAIN clients' /\ ~Subscribing(t) =>
                    t \notin DOMAIN client_channels' /\ t \notin DOMAIN stop_channels'
      ]_vars


\* What the last step of a streamer did with the quote it received.
Received == out.kind \in {"sent", "error", "skip"}

\* C4: a Streaming Unit hands a received Update to the transport if and only
\* if the Update's topic is in the unit's Topic Set, and every datagram sent
\* to a target carries a topic of the STREAM command that named the target.
C4_ForwardsIffSubscribed ==
    /\ Received =>
         /\ out.kind \in {"sent", "error"}
               <=> TickersContains(units[out.unit].tickers, out.quote.ticker)
         /\ out.to = units[out.unit].addr
    /\ \A line \in TwoStreamLines :
         (out.kind = "sent" /\ out.to = ParseCommand(line).value.udp_addr)
            => TickersContains(ParseCommand(line).value.tickers, out.quote.ticker)

\* C4 witness: the streamer of the AAPL-only subscriber received a GOOGL
\* Update and discarded it.
C4_Witness ==
    /\ out.kind = "skip"
    /\ out.to = Addr1
    /\ out.quote.ticker = ALL_TICKERS[2]
    /\ units[out.unit].tickers = <<ALL_TICKERS[1]>>

\* C5: once a subscriber that sends no heartbeat is absent from the Registry,
\* no further datagram is delivered to its target.
C5_NoDatagramOnceAbsent ==
    out.kind = "sent" => out.to \in DOMAIN clients

\* C6: a registered subscriber whose origin address has a heartbeat processed
\* at intervals shorter than ping_timeout is never removed by the sweep, also
\* when several subscribers share one origin address.
C6_HeartbeatKeepsRegistered ==
    \A t \in Targets : regular[t] # -1 => t \in DOMAIN clients

\* C7: after a failed send the unit is still Running, and a unit that ran
\* stops only on a stop signal or on queue closure.
C7_SendFailureKeepsRunning ==
    /\ out.kind = "error" => Running(out.unit)
    /\ \A u \in UnitIds : units[u].exit # "send_error"

\* The streamers whose Sender is in the quote-channel table and whose receiver
\* is alive.
Receiving ==
    {u \in UnitIds : (\E a \in DOMAIN client_channels : client_channels[a] = u)
                     /\ units[u].state # "Stopped"}

\* C8: a failure of one subscriber (its send_to failed, or its receiver is
\* gone so that the generator's send fails) does not affect the others: every
\* generated Update is pushed to the queue of every other subscriber whose
\* receiver is alive, and a streamer that ends on a send error changes no
\* other streamer.
C8_FailureIsolated ==
    /\ [](out.kind = "emit" =>
            \A b \in Receiving :
                /\ b \in out.pushed
                /\ units[b].quote_q # <<>>
                /\ units[b].quote_q[Len(units[b].quote_q)] = out.quote)
    /\ [][\A a, b \in UnitIds :
            (a # b /\ units[a].exit = "none" /\ units'[a].exit = "send_error")
               => units'[b] = units[b]]_vars

\* C8 witness: the generator's send to a streamer that ended on a send error
\* failed, and the same Update was pushed to another subscriber's queue.
C8_Witness ==
    /\ out.kind = "emit"
    /\ \E a \in out.failed : units[a].exit = "send_error"
    /\ \E b \in out.pushed : units[b].quote_q[Len(units[b].quote_q)] = out.quote

\* The failure description of each malformed line.
ExpectedError(line) ==
    CASE line = <<>> -> <<"Empty command">>
      [] line = <<"f", "o", "o">> -> <<"Unknown command:", <<"F", "O", "O">>>>
      [] line = STREAM \o <<" ", "b", "a", "d", "-", "t", "a", "r", "g", "e", "t", " ", "A", "A", "P", "L">>
           -> <<"invalid socket address">>
      [] line = <<"s", "t", "r", "e", "a", "m">> \o <<" ">> \o UrlText(Addr1) \o <<" ", ",">>
           -> <<"No valid tickers provided">>

\* C9: a line that fails to parse is answered with an Error response carrying
\* the failure description, leaves Registry and channel tables unchanged and
\* leaves the connection open; a PING line is answered Ok, also on a
\* connection that was answered an Error before.
C9_ParseErrorKeepsConnection ==
    /\ []((out.kind = "response" /\ out.line \in BadLines) =>
            /\ out.response = ResponseError(ExpectedError(out.line))
            /\ conns[out.conn].pc = "read"
            /\ conns[out.conn].erred)
    /\ []((out.kind = "response" /\ out.line \in PingLines) =>
            out.response = ResponseOk)
    /\ [][(out'.kind = "response" /\ out'.line \in BadLines) =>
            UNCHANGED <<clients, client_channels, stop_channels, units>>]_vars

\* C9 witness: a PING answered Ok on a connection that was answered an Error
\* before and is still being read.
C9_Witness ==
    /\ out.kind = "response"
    /\ out.line = PING
    /\ out.response = ResponseOk
    /\ conns[out.conn].erred
    /\ conns[out.conn].pc = "read"

\* C10: a sweep removes exactly the records whose elapsed time is strictly
\* greater than the timeout (elapsed at least up to the clock at the start of
\* the sweep, at most up to the clock at its end), returns exactly the removed
\* targets, each once, and leaves every other record unchanged.
C10_SweepRemovesExactlyExpired ==
    [][out'.kind = "sweep" =>
        LET removed == Range(out'.removed) IN
        /\ removed = DOMAIN clients \ DOMAIN clients'
        /\ DOMAIN clients' \subseteq DOMAIN clients
        /\ Len(out'.removed) = Cardinality(removed)
        /\ cleanup'.removed = out'.removed
        /\ \A t \in removed : now' - clients[t].last_ping > PingTimeout
        /\ \A t \in DOMAIN clients' :
              /\ now - clients[t].last_ping <= PingTimeout
              /\ clients'[t] = clients[t]
    ]_vars

\* C10 witness: a sweep returned an expired target and kept a record that was
\* not expired.
C10_Witness ==
    /\ out.kind = "sweep"
    /\ out.removed # <<>>
    /\ DOMAIN clients # {}
    /\ \A t \in DOMAIN clients : now - clients[t].last_ping <= PingTimeout


\* C11: update_ping(target) returns true and sets the record's last_ping to
\* now, changing nothing else, when target is registered; for an unknown target
\* it returns false and changes neither the registered targets nor any record.
C11_TouchByTarget ==
    [][out'.kind = "update_ping" =>
        LET t == out'.target IN
        /\ out'.result <=> t \in DOMAIN clients
        /\ DOMAIN clients' = DOMAIN clients
        /\ \A x \in DOMAIN clients \ {t} : clients'[x] = clients[x]
        /\ t \in DOMAIN clients => clients'[t] = [clients[t] EXCEPT !.last_ping = now]
      ]_vars

\* C11 witness: update_ping of an unknown target returned false while another
\* target is registered.
C11_Witness ==
    /\ out.kind = "update_ping"
    /\ ~out.result
    /\ out.target \notin DOMAIN clients
    /\ DOMAIN clients # {}

\* C12: update_ping_by_source(origin) returns true exactly when some record's
\* source_ip equals the origin; then a matching record has its last_ping set to
\* now, and no record of another origin and no membership changes; when no
\* record matches it returns false and leaves every record unchanged.
C12_TouchByOrigin ==
    [][out'.kind = "update_ping_by_source" =>
        LET matching == FindBySource(clients, out'.ip) IN
        /\ out'.result <=> matching # {}
        /\ DOMAIN clients' = DOMAIN clients
        /\ \A x \in DOMAIN clients \ matching : clients'[x] = clients[x]
        /\ matching # {} =>
              \E t \in matching : clients'[t] = [clients[t] EXCEPT !.last_ping = now]
        /\ matching = {} => clients' = clients
      ]_vars

\* C12 witness: a heartbeat from an origin that two records share returned
\* true, with one of them touched at the present instant.
C12_Witness ==
    /\ out.kind = "update_ping_by_source"
    /\ out.result
    /\ Cardinality(FindBySource(clients, out.ip)) = 2
    /\ now > 0
    /\ \E t \in FindBySource(clients, out.ip) : clients[t].last_ping = now

\* C13: register(target, topics, origin) is an overwrite: afterwards the
\* Registry holds one record for target with the given topics and origin and
\* last_ping = now, the records of other targets are unchanged, registering a
\* registered target keeps the number of records, and a registration never
\* removes another target (so registrations of distinct targets by two
\* threads, in either order, leave both registered).
C13_RegisterOverwrites ==
    [][out'.kind = "register" =>
        LET t == out'.target IN
        /\ DOMAIN clients' = DOMAIN clients \cup {t}
        /\ clients'[t] = ClientInfoNew(t, out'.tickers, out'.source_ip, now)
        /\ \A x \in DOMAIN clients \ {t} : clients'[x] = clients[x]
        /\ t \in DOMAIN clients =>
              Cardinality(DOMAIN clients') = Cardinality(DOMAIN clients)
      ]_vars

\* C13 witness: a registered target was registered again later, with another
\* origin, while a second target is registered.
C13_Witness ==
    /\ out.kind = "register"
    /\ out.known
    /\ now > 0
    /\ clients[out.target].last_ping = now
    /\ Cardinality(DOMAIN clients) = 2


\* Every loop of the server has been left.
AllLoopsExited ==
    /\ gen.pc = "done"
    /\ ping_pc = "done"
    /\ cleanup.pc = "done"
    /\ accept_pc = "done"
    /\ \A c \in Conns : conns[c].pc \in {"idle", "closed"}
    /\ \A u \in UnitIds : ~Running(u)

\* C14: once the running flag is false, every long-running loop eventually
\* exits: generator, heartbeat listener, cleanup, acceptor, every
\* per-connection command loop and every streamer loop.
C14_AllLoopsExitAfterShutdown ==
    ~running ~> AllLoopsExited


\* C15: a Running streamer to which a stop signal has been sent eventually is
\* Stopped, whatever the running flag and however many Updates are queued: it
\* stops at its next stop check; and Stopped is terminal, a Stopped streamer
\* never runs or forwards again.
C15_StopSignalStops ==
    /\ \A u \in 1..MaxUnits :
          (u \in UnitIds /\ Running(u) /\ units[u].stop_q > 0)
             ~> (u \in UnitIds /\ units[u].state = "Stopped")
    /\ [][\A u \in UnitIds :
            /\ (units[u].state = "CheckStop" /\ units[u].stop_q > 0
                  /\ units'[u].state # "CheckStop")
               => units'[u].state = "Stopped"
            /\ units[u].state = "Stopped"
               => /\ units'[u].state = "Stopped"
                  /\ units'[u].exit = units[u].exit
                  /\ ~(out'.kind \in {"sent", "error", "skip"} /\ out'.unit = u)
         ]_vars

\* C15 witness: after the running flag was cleared, a streamer ended on a stop
\* message while an Update was still addressed to its target's queue entry.
C15_Witness ==
    \E u \in UnitIds :
        /\ units[u].exit = "stop"
        /\ ~running
        /\ units[u].addr \in DOMAIN client_channels
        /\ client_channels[units[u].addr] = u

\* C16: a streamer whose update queue has lost every sender eventually is
\* Stopped: once the queue is drained its recv_timeout ends the loop, with no
\* stop message needed.
C16_QueueClosureStops ==
    /\ \A u \in 1..MaxUnits :
          (u \in UnitIds /\ Running(u) /\ ~units[u].quote_tx)
             ~> (u \in UnitIds /\ units[u].state = "Stopped")
    /\ [][\A u \in UnitIds :
            (units[u].state = "RecvQuote" /\ ~units[u].quote_tx
               /\ units[u].quote_q = <<>> /\ units'[u].state # "RecvQuote")
            => units'[u].state = "Stopped" /\ units'[u].exit = "closed"
         ]_vars

\* C16 witness: a streamer ended on queue closure with no stop message sent to
\* it: its stop sender is still in the stop table.
C16_Witness ==
    \E u \in UnitIds :
        /\ units[u].exit = "closed"
        /\ units[u].stop_tx
        /\ units[u].addr \in DOMAIN stop_channels
        /\ stop_channels[units[u].addr] = u


\* The Updates the generator has produced so far, in the order of production:
\* round after round, each round in the order of ALL_TICKERS.
Emitted ==
    LET T == Len(ALL_TICKERS)
        n == IF gen.pc = "emit" THEN (gen.round - 1) * T + gen.i - 1
             ELSE gen.round * T
    IN [k \in 1..n |-> [ticker |-> ALL_TICKERS[((k - 1) % T) + 1],
                        round |-> ((k - 1) \div T) + 1]]

\* C17: in a generation tick the generator produces one Update per topic of
\* ALL_TICKERS in that order, and sends a copy of each to every sender in the
\* quote-channel table at that moment: every subscriber whose receiver exists
\* has it appended to its queue, so the queue of a subscriber in the table is
\* always the latest Updates in the order of production, none missing.
C17_TickPushesAllInOrder ==
    /\ [](out.kind = "emit" =>
            /\ out.generated
            /\ Emitted # <<>> /\ out.quote = Emitted[Len(Emitted)]
            /\ out.pushed \cup out.failed = Range(client_channels)
            /\ \A u \in out.failed : units[u].state = "Stopped"
            /\ \A u \in out.pushed :
                  units[u].quote_q[Len(units[u].quote_q)] = out.quote)
    /\ [](\A u \in Receiving :
            LET q == units[u].quote_q IN
            /\ Len(q) <= Len(Emitted)
            /\ \A k \in 1..Len(q) : q[k] = Emitted[Len(Emitted) - Len(q) + k])
    /\ [][out'.kind = "emit" =>
            /\ gen.pc = "emit"
            /\ out'.quote.ticker = ALL_TICKERS[gen.i]
            /\ gen'.pc = "sleep" <=> gen.i = Len(ALL_TICKERS)
            /\ gen'.pc = "emit" => gen'.i = gen.i + 1
         ]_vars
    /\ [][(gen.pc = "sleep" /\ gen'.pc = "emit") => gen'.i = 1]_vars

\* C17 witness: a tick is complete and two subscribers in the table hold all
\* its Updates in topic order.
C17_Witness ==
    /\ out.kind = "emit"
    /\ gen.pc = "sleep"
    /\ Cardinality(Receiving) = 2
    /\ \A u \in Receiving :
          /\ Len(units[u].quote_q) = Len(ALL_TICKERS)
          /\ \A k \in 1..Len(ALL_TICKERS) : units[u].quote_q[k].ticker = ALL_TICKERS[k]


\* The last step wrote the response to a STREAM line.
StreamAnswered == out.kind = "response" /\ out.line \in TwoStreamLines

\* C18: the Ok response to a STREAM command is written only after the
\* handler, in this order, registered the subscriber, inserted its quote
\* sender, inserted its stop sender and spawned its streamer thread; the
\* response to a STREAM command that parsed is never an Error.
C18_OkAfterSetup ==
    /\ [](StreamAnswered => out.response = ResponseOk)
    /\ [][\A c \in Conns :
            LET addr == conns'[c].cmd.udp_addr
                unit == conns'[c].unit
            IN
            /\ (out'.kind = "response" /\ out'.conn = c /\ out'.line \in TwoStreamLines)
               => /\ conns[c].pc = "spawned"
                  /\ units[conns[c].unit].state # "Pending"
            /\ (conns[c].pc # "spawned" /\ conns'[c].pc = "spawned")
               => /\ conns[c].pc = "stop_inserted"
                  /\ units'[unit].state = "Spawned"
            /\ (conns[c].pc # "stop_inserted" /\ conns'[c].pc = "stop_inserted")
               => /\ conns[c].pc = "chan_inserted"
                  /\ addr \in DOMAIN stop_channels' /\ stop_channels'[addr] = unit
            /\ (conns[c].pc # "chan_inserted" /\ conns'[c].pc = "chan_inserted")
               => /\ conns[c].pc = "registered"
                  /\ addr \in DOMAIN client_channels' /\ client_channels'[addr] = unit
            /\ (conns[c].pc # "registered" /\ conns'[c].pc = "registered")
               => /\ conns[c].pc = "read"
                  /\ addr \in DOMAIN clients'
                  /\ clients'[addr].tickers = conns'[c].cmd.tickers
                  /\ clients'[addr].source_ip = PeerIp[c]
         ]_vars

\* C18 witness: Ok was written for a STREAM line whose target is registered,
\* has both table entries and a spawned streamer.
C18_Witness ==
    /\ StreamAnswered
    /\ out.response = ResponseOk
    /\ LET addr == ParseCommand(out.line).value.udp_addr IN
         /\ addr \in DOMAIN clients
         /\ Attached(addr) # {}
         /\ \A u \in Attached(addr) : units[u].state # "Pending"

\* C19: a PING line on the control connection is answered Ok and changes no
\* Registry record (no last_ping either) and no channel table.
C19_ControlPingChangesNothing ==
    /\ []((out.kind = "response" /\ out.line \in PingLines) =>
            out.response = ResponseOk)
    /\ [][(out'.kind = "response" /\ out'.line \in PingLines) =>
            UNCHANGED <<clients, client_channels, stop_channels, units>>]_vars

\* C19 witness: a PING line was answered Ok on the connection of a subscriber
\* whose record was last touched before the present instant.
C19_Witness ==
    /\ out.kind = "response"
    /\ out.line \in PingLines
    /\ out.response = ResponseOk
    /\ \E t \in DOMAIN clients :
          clients[t].source_ip = PeerIp[out.conn] /\ clients[t].last_ping < now

\* C20: on the heartbeat port a datagram whose trimmed payload is PING in any
\* letter case gets update_ping_by_source called for its source and PONG sent
\* back to its source; any other datagram gets no reply and changes no record.
C20_PingDatagramPong ==
    /\ [](out.kind = "pong" => out.payload \in {PayloadPING, PayloadPingLf})
    /\ [](out.kind = "ignored" => out.payload \in {PayloadPONG, PayloadPINGS})
    /\ [][out'.kind = "pong" =>
            LET matching == FindBySource(clients, out'.to) IN
            /\ out'.found <=> matching # {}
            /\ matching # {} =>
                  \E t \in matching : clients'[t] = touch(clients[t], now)
            /\ DOMAIN clients' = DOMAIN clients
         ]_vars
    /\ [][out'.kind = "ignored" => clients' = clients]_vars

\* C20 witness: a datagram "ping\n" from a subscriber's origin was answered
\* with PONG and the subscriber's record was touched at the present instant.
C20_Witness ==
    /\ out.kind = "pong"
    /\ out.payload = PayloadPingLf
    /\ out.found
    /\ now > 0
    /\ \E t \in DOMAIN clients :
          clients[t].source_ip = out.to /\ clients[t].last_ping = now

\* The Decimal a is at most the Decimal b.
DecLe(a, b) ==
    LET scale == IF a.scale > b.scale THEN a.scale ELSE b.scale
    IN Rescale(a, scale).m <= Rescale(b, scale).m

\* C21: generate_batch returns the quote of every ticker of the batch whose
\* own generate succeeds, whatever happens to the other tickers.
C21_BatchCollectsSuccesses ==
    out.kind = "generate_batch" =>
        \A i \in DOMAIN out.tickers :
            StockQuoteNew(out.tickers[i], TICKER_MIN_PRICE, 0, out.draw.clock).ok
              => /\ out.result.ok
                 /\ \E k \in DOMAIN out.result.value :
                       out.result.value[k].ticker = out.tickers[i]

\* C22: the price a generate call returns and the price it stores for the
\* ticker are at least TICKER_MIN_PRICE, from every initial price and after
\* every sequence of calls.
C22_PriceFloor ==
    out.kind = "generate" =>
        /\ DecLe(TICKER_MIN_PRICE, out.prices[out.ticker])
        /\ out.result.ok =>
              /\ DecLe(TICKER_MIN_PRICE, out.result.value.price)
              /\ out.result.value.price = out.prices[out.ticker]

\* C22 witness: the price before the call times the change factor was below
\* TICKER_MIN_PRICE, and the call returned TICKER_MIN_PRICE.
C22_Witness ==
    /\ out.kind = "generate"
    /\ out.result.ok
    /\ ~DecLe(TICKER_MIN_PRICE, DecMul(out.before, random_change_factor(out.draw.n)))
    /\ out.result.value.price = TICKER_MIN_PRICE
    /\ out.calls > 1

\* The difference of the prices second and first is at most 1% of first plus
\* the tolerance 0.01.
Bounded(first, second) ==
    LET scale == IF first.scale > second.scale THEN first.scale ELSE second.scale
        a == Rescale(first, scale).m
        b == Rescale(second, scale).m
        one == Rescale([m |-> 1, scale |-> 0], scale).m
    IN (IF b > a THEN b - a ELSE a - b) <= (a + one) \div 100

\* C23: of two consecutive generate calls for one ticker, the second returns a
\* price that differs from the price the first returned by at most 1% of that
\* price, within the tolerance 0.01.
C23_ChangeBounded ==
    [][(/\ out.kind = "generate" /\ out.result.ok
        /\ out'.kind = "generate" /\ out'.result.ok
        /\ out'.ticker = out.ticker)
          => Bounded(out.result.value.price, out'.result.value.price)]_vars

\* C23 witness: the second of two consecutive calls for one ticker, the price
\* before it being the product the first call made, returned a price above
\* TICKER_MIN_PRICE that differs from the price before.
C23_Witness ==
    /\ out.kind = "generate"
    /\ out.calls = 2
    /\ out.result.ok
    /\ out.before.scale > 2
    /\ out.before # out.result.value.price
    /\ ~DecLe(out.result.value.price, TICKER_MIN_PRICE)
    /\ out.draw.n = 0

\* C24: a line parses to a Command only if it is STREAM (in any case) with
\* exactly two further tokens or PING (in any case) with no further token; an
\* empty or blank line and any other verb is an error.
C24_CommandArity ==
    (out.kind = "parse_command" /\ out.result.ok) =>
        /\ SplitWhitespace(out.text) # <<>>
        /\ \/ ToUpper(SplitWhitespace(out.text)[1]) = STREAM /\ Len(SplitWhitespace(out.text)) = 3
           \/ ToUpper(SplitWhitespace(out.text)[1]) = PING /\ Len(SplitWhitespace(out.text)) = 1

\* C25: the text of every Command parses back to the same Command.
C25_CommandRoundTrip ==
    out.kind = "command_text" => out.result = Ok(out.cmd)

\* C26: a parsed Topic Set holds every symbol at most once, and its text
\* parses back to the same Topic Set.
C26_TickersAreASet ==
    (out.kind = "parse_tickers" /\ out.result.ok) =>
        /\ \A i, j \in DOMAIN out.result.value :
              out.result.value[i] = out.result.value[j] => i = j
        /\ out.again = out.result

\* C27: Tickers::from_str fails exactly when the text has no character besides
\* commas and whitespace; a parsed Topic Set is non-empty, and none of its
\* symbols is empty or blank or carries surrounding whitespace.
C27_TickersNonEmpty ==
    out.kind = "parse_tickers" =>
        /\ out.result.ok <=>
              \E k \in DOMAIN out.text : out.text[k] \notin Whitespace \cup {","}
        /\ ~out.result.ok => out.result.err = <<"No valid tickers provided">>
        /\ out.result.ok =>
              /\ out.result.value # <<>>
              /\ \A i \in DOMAIN out.result.value :
                    /\ out.result.value[i] # <<>>
                    /\ Head(out.result.value[i]) \notin Whitespace
                    /\ out.result.value[i][Len(out.result.value[i])] \notin Whitespace

\* C27 witness: a text with empty and blank segments around one symbol was
\* parsed to the one-symbol Topic Set.
C27_Witness ==
    /\ out.kind = "parse_tickers"
    /\ out.text = <<",", " ", "a">>
    /\ out.result = Ok(<<<<"A">>>>)

\* C28: a Response is written as OK, as ERR alone for the empty message and as
\* ERR, a space and the message otherwise, and that text parses back to the
\* same Response with the same message.
C28_ResponseRoundTrip ==
    out.kind = "response_text" =>
        /\ out.text = IF out.response.tag = "Ok" THEN <<"O", "K">>
                      ELSE IF out.response.message = <<>> THEN <<"E", "R", "R">>
                      ELSE <<"E", "R", "R">> \o <<" ">> \o out.response.message
        /\ out.result = Ok(out.response)

\* C28 witness: an Error whose message is a single space was written as ERR
\* and two spaces, and read back with its message.
C28_Witness ==
    /\ out.kind = "response_text"
    /\ out.response = ResponseError(<<" ">>)
    /\ out.text = <<"E", "R", "R", " ", " ">>
    /\ out.result = Ok(ResponseError(<<" ">>))

\* C29: the pipe form of every StockQuote that StockQuote::new builds parses
\* back to the same StockQuote, and a text of fewer or more than four fields
\* is rejected.
C29_QuoteRoundTrip ==
    /\ (out.kind = "quote_new" /\ out.result.ok) => out.again = out.result
    /\ (out.kind = "parse_quote" /\ Len(SplitOn(out.text, {"|"})) # 4)
          => ~out.result.ok

\* C30: the datagram of a StockQuote is its pipe form
\* ticker|price|volume|timestamp.
C30_DatagramIsPipeForm ==
    out.kind = "datagram" => out.data = QuoteText(out.quote)

\* C31: one sweep removes exactly the records that are expired at the clock
\* read when the sweep starts (sweep start - last_ping > timeout), also when
\* the clock advances while the sweep walks over the records.
C31_SweepUsesOneNow ==
    [][out'.kind = "sweep" =>
        Range(out'.removed) =
            {t \in DOMAIN clients : now - clients[t].last_ping > PingTimeout}
    ]_vars

\* C32: a touch and a sweep each run inside the critical section of the
\* registry, so a sweep finds every last_ping as a completed write left it,
\* and a record whose last_ping was written (by a touch, or by the
\* registration) before the sweep took the lock and less than the timeout
\* before that moment is not removed by that sweep.
C32_SweepKeepsTouched ==
    [][out'.kind = "sweep" =>
        \A t \in DOMAIN clients :
            now - clients[t].last_ping < PingTimeout => t \in DOMAIN clients'
    ]_vars

\* C33: a streamer whose channel entry was inserted while a round of the
\* generator was under way receives no quote of that round: the first quote
\* in the queue of a streamer that has not started to receive is the quote of
\* the first ticker of a round, never one from the middle of a round.
C33_NoPartialTick ==
    \A u \in UnitIds :
        (units[u].state \in {"Pending", "Spawned"} /\ units[u].quote_q # <<>>)
            => Head(units[u].quote_q).ticker = ALL_TICKERS[1]

\* C34: a generate() that fails is fatal to that call alone: nothing is
\* pushed for its ticker, the loop goes on to the next ticker of the round
\* (or, after the last one, to the sleep before the next round) and never
\* ends because of it; and every quote that is generated is sent to every
\* sender of the table, whatever failed before in the round.
C34_FailedGenerateSkipsOneTicker ==
    /\ [][(out'.kind = "emit" /\ ~out'.generated) =>
            /\ units' = units
            /\ out'.pushed = {} /\ out'.failed = {}
            /\ running' = running
            /\ gen' = IF gen.i = Len(ALL_TICKERS)
                      THEN [pc |-> "sleep", i |-> 0, round |-> gen.round]
                      ELSE [pc |-> "emit", i |-> gen.i + 1, round |-> gen.round]
         ]_vars
    /\ [][(out'.kind = "emit" /\ out'.generated) =>
            /\ out'.quote.ticker = ALL_TICKERS[gen.i]
            /\ out'.pushed \cup out'.failed = Range(client_channels)
            /\ \A u \in out'.pushed :
                  units'[u].quote_q = Append(units[u].quote_q, out'.quote)
         ]_vars
    /\ [](gen.pc # "done")

\* C34 witness: generate() failed for the first ticker of a round while a
\* running streamer was in the table; nothing was pushed, and the generator
\* is about to generate the second ticker.
C34_Witness ==
    /\ out.kind = "emit"
    /\ ~out.generated
    /\ out.quote.ticker = ALL_TICKERS[1]
    /\ gen.pc = "emit" /\ gen.i = 2
    /\ \E t \in DOMAIN client_channels :
          /\ Running(client_channels[t])
          /\ units[client_channels[t]].quote_q = <<>>

C36_EntriesOfOneUnit ==
    HandlersIdle =>
        \A t \in DOMAIN client_channels :
            /\ t \in DOMAIN stop_channels
            /\ stop_channels[t] = client_channels[t]
            /\ units[client_channels[t]].state # "Stopped"

\* C37: once every Subscribe command has been handled to its end, the
\* tickers by which the running streamer of a registered target filters are
\* the tickers of the target's record, also after a second Subscribe with
\* other tickers and after concurrent Subscribes.
C37_UnitFiltersByRecord ==
    HandlersIdle =>
        \A t \in DOMAIN clients \cap DOMAIN client_channels :
            Running(client_channels[t]) =>
                units[client_channels[t]].tickers = clients[t].tickers

\* A later Subscribe for the target of streamer u has inserted the quote
\* sender of a new streamer, which took the place of the sender of u.
Replaced(u) == \E v \in UnitIds : v > u /\ units[v].addr = units[u].addr

\* C38: the streamer whose table entries a later Subscribe for its target
\* replaced eventually is Stopped, and from the replacement on no quote is
\* added to its queue: what it still forwards was pushed before.
C38_ReplacedUnitStops ==
    /\ \A u \in 1..MaxUnits :
          (u \in UnitIds /\ Replaced(u))
             ~> (u \in UnitIds /\ units[u].state = "Stopped")
    /\ [][\A u \in UnitIds :
            Replaced(u) =>
                /\ ~units[u].quote_tx
                /\ IF units[u].quote_q = <<>>
                   THEN /\ units'[u].quote_q = <<>>
                        /\ ~(out'.kind \in {"sent", "error", "skip"} /\ out'.unit = u)
                   ELSE units'[u].quote_q \in
                           {units[u].quote_q, Tail(units[u].quote_q), <<>>}
         ]_vars

\* C38 witness: a streamer whose target was still registered ended because
\* the second Subscribe dropped its stop sender, with no stop message sent,
\* and the streamer of the second Subscribe is running.
C38_Witness ==
    /\ Len(units) = 2
    /\ units[1].exit = "stop_disconnected"
    /\ units[2].addr = units[1].addr
    /\ Running(2)
    /\ client_channels[units[2].addr] = 2

\* C39: the step by which a handler ends (the peer closed the connection, or
\* reading or writing failed) changes no record, no table entry and no
\* streamer; a record leaves the registry only in a sweep that found it
\* expired, and an entry leaves a channel table only when the cleanup thread
\* tears down a target that a sweep removed.
C39_SubscriptionOutlivesConnection ==
    [][/\ (\E c \in Conns : conns[c].pc # "closed" /\ conns'[c].pc = "closed")
          => /\ clients' = clients
             /\ client_channels' = client_channels
             /\ stop_channels' = stop_channels
             /\ units' = units
       /\ \A t \in DOMAIN clients \ DOMAIN clients' :
             /\ out'.kind = "sweep"
             /\ t \in Range(out'.removed)
             /\ now' - clients[t].last_ping > PingTimeout
       /\ \A t \in (DOMAIN client_channels \ DOMAIN client_channels')
                     \cup (DOMAIN stop_channels \ DOMAIN stop_channels') :
             /\ cleanup.pc \in {"rm_chan", "rm_stop"}
             /\ t = Head(cleanup.removed)
    ]_vars

\* C39 witness: the connection that subscribed is closed, and the streamer of
\* its target, still registered and in both tables, has just sent a quote.
C39_Witness ==
    /\ conns["c1"].pc = "closed"
    /\ out.kind = "sent"
    /\ out.to \in DOMAIN clients
    /\ client_channels[out.to] = out.unit
    /\ stop_channels[out.to] = out.unit
    /\ Running(out.unit)


\* C40: the client hands a PING to its socket and calls recv_from only after
\* the response line of its STREAM command was parsed as Ok; when the line is
\* an Error response or no response, run returns an error and neither loop was
\* started; and once shutdown has stored false in running, both loops end and
\* run returns.
C40_ClientWaitsForOk ==
    /\ [](out.ping # "unspawned" \/ out.recv # "unspawned" \/ out.pinged
          \/ out.seen # "none"
          => out.answer = "ok" /\ ParseResponse(out.line) = Ok(ResponseOk))
    /\ [](out.answer \in {"error", "invalid"}
          => /\ out.pc = "returned" /\ out.result = "err"
             /\ out.ping = "unspawned" /\ out.recv = "unspawned")
    /\ (~out.running)
          ~> (out.pc = "returned" /\ out.ping \in {"unspawned", "done"}
                                   /\ out.recv \in {"unspawned", "done"})

\* After an Ok both loops ran, a PING was sent and a quote was received, then
\* shutdown was called and run returned Ok.
C40_Witness ==
    /\ out.kind = "client" /\ out.answer = "ok"
    /\ out.pinged /\ out.seen = "quote"
    /\ ~out.running /\ out.ping = "done" /\ out.recv = "done"
    /\ out.pc = "returned" /\ out.result = "ok"

====
